---- MODULE Spec2Model ----
(***************************************************************************)
(* Dialogue-management core of the ration ordering agent: the phase FSM   *)
(* and slot buffer (conversation_state.py), the tiered item parser        *)
(* (item_parser.py), the rule-cascade intent classifier                   *)
(* (decision_engine.py) and the turn executor (action_executor.py).       *)
(*                                                                         *)
(* Text is a sequence of one-character strings, so that the regular       *)
(* expressions, str.split, float() and the other string operations of the *)
(* source are computed character by character.  A float is a record:      *)
(* finite values are fixed-point integers counted in 1/QScale.            *)
(***************************************************************************)
EXTENDS Integers, Sequences, FiniteSets, TLC

(***************************************************************************)
(* constants.py                                                            *)
(***************************************************************************)
KNOWN_ITEMS ==
    {"rice", "wheat", "sugar", "oil", "dal", "flour", "salt", "atta",
     "maida", "sooji", "poha", "tea", "coffee", "milk", "ghee", "butter",
     "bread", "ragi", "bajra", "jowar", "besan", "semolina", "suji",
     "mustard", "cumin", "turmeric", "chilli", "pepper", "onion", "potato",
     "tomato", "garlic", "ginger", "carrot", "cabbage", "brinjal",
     "spinach", "peas", "lemon", "coconut", "groundnut", "soya", "corn"}

STOP_WORDS ==
    {"add", "put", "want", "i", "need", "of", "the", "a", "an", "please",
     "some", "more", "to", "and", "give", "me", "get", "would", "like",
     "could", "can", "also", "another", "few", "much", "many", "my", "your",
     "our", "this", "that", "it", "for", "with", "from", "in", "on", "at",
     "by", "about", "order", "buy", "purchase", "take", "bring", "send",
     "require", "have", "got", "man", "bro", "sir", "madam", "hey", "sup",
     "yo", "aight", "nah", "yep", "hmm", "okay", "ok", "oh", "ah", "uh",
     "um", "right", "sure", "well", "just", "now", "then", "here", "there",
     "let", "say", "tell", "know", "think", "said", "nothing", "something",
     "everything", "anything", "wrong", "reply", "properly", "what", "how",
     "when", "where", "why", "who", "which", "up", "down", "out", "off",
     "over", "under", "back"}

AFFIRM_WORDS ==
    {"yes", "yeah", "yep", "yup", "correct", "right", "ok", "okay", "sure",
     "confirm", "absolutely", "definitely", "fine", "agreed", "proceed",
     "haan", "bilkul"}

DENY_WORDS ==
    {"no", "nope", "nah", "cancel", "wrong", "incorrect", "dont", "not",
     "stop", "wait", "hold", "different", "mistake", "error", "nahi"}

ACCUMULATE_WORDS ==
    {"more", "extra", "additional", "another", "again"}

EXIT_WORDS ==
    {"bye", "goodbye", "exit", "quit", "finish", "thats all",
     "nothing else", "done"}

SHOW_CART_WORDS ==
    {"show", "cart", "list", "display", "review", "summary"}

CONFIRM_ORDER_WORDS ==
    {"confirm", "place", "finalize", "submit", "complete"}

UPDATE_WORDS ==
    {"change", "update", "modify", "replace", "correct", "edit", "fix",
     "set"}

REMOVE_WORDS ==
    {"remove", "delete", "drop"}

UNIT_CANONICAL ==
    ("kg":>"kg") @@ ("kilo":>"kg") @@ ("kilos":>"kg") @@ ("kilogram":>"kg")
    @@ ("kilograms":>"kg") @@ ("g":>"g") @@ ("gram":>"g") @@ ("grams":>"g")
    @@ ("litre":>"litre") @@ ("litres":>"litre") @@ ("liter":>"litre") @@
    ("liters":>"litre") @@ ("l":>"litre") @@ ("ltr":>"litre") @@
    ("ltrs":>"litre") @@ ("ml":>"ml") @@ ("millilitre":>"ml") @@
    ("milliliter":>"ml") @@ ("packet":>"packet") @@ ("packets":>"packet") @@
    ("pack":>"packet") @@ ("pkt":>"packet") @@ ("pkts":>"packet") @@
    ("piece":>"piece") @@ ("pieces":>"piece") @@ ("pcs":>"piece") @@
    ("pc":>"piece") @@ ("barrel":>"barrel") @@ ("barrels":>"barrel") @@
    ("dozen":>"dozen") @@ ("box":>"box") @@ ("boxes":>"box") @@
    ("bottle":>"bottle") @@ ("bottles":>"bottle") @@ ("tin":>"tin") @@
    ("tins":>"tin") @@ ("bag":>"bag") @@ ("bags":>"bag") @@ ("sack":>"bag")
    @@ ("sacks":>"bag")

KNOWN_UNITS == DOMAIN UNIT_CANONICAL

MAX_CART_ITEMS == 20

MAX_ITEM_QUANTITY == 9999

MAX_TURNS_PER_SESSION == 100

MAX_LLM_CALLS_PER_SESSION == 50

(***************************************************************************)
(* Python values.  None for str-typed fields is the string "None" (no     *)
(* lower-cased token equals it); floats are records.                      *)
(***************************************************************************)
None == "None"

QScale == 10000

NoneF == [k |-> "None"]

Fin(v) == [k |-> "fin", v |-> v]

NaN == [k |-> "nan"]

Inf(sign) == [k |-> "inf", s |-> sign]

\* q <= 0 for a float q (every comparison with NaN is False)
FloatLeZero(q) ==
    CASE q.k = "fin" -> q.v <= 0
      [] q.k = "inf" -> q.s < 0
      [] OTHER       -> FALSE

\* q > m for a float q and an int m
FloatGtInt(q, m) ==
    CASE q.k = "fin" -> q.v > m * QScale
      [] q.k = "inf" -> q.s > 0
      [] OTHER       -> FALSE

\* a + b on floats
FloatAdd(a, b) ==
    IF a.k = "nan" \/ b.k = "nan" THEN NaN
    ELSE IF a.k = "inf" /\ b.k = "inf" THEN (IF a.s = b.s THEN a ELSE NaN)
    ELSE IF a.k = "inf" THEN a
    ELSE IF b.k = "inf" THEN b
    ELSE Fin(a.v + b.v)

\* round(x, 3).  A finite x goes to the nearest multiple of 1/1000; where x
\* lies midway in decimal, the binary value of the float decides which
\* neighbour is nearest, so the caller says whether such a tie goes up.
round3(x, tie_up) ==
    IF x.k # "fin" \/ x.v % (QScale \div 1000) = 0 THEN x
    ELSE IF \/ 2 * (x.v % (QScale \div 1000)) < QScale \div 1000
            \/ /\ 2 * (x.v % (QScale \div 1000)) = QScale \div 1000
               /\ ~tie_up
         THEN Fin(x.v - (x.v % (QScale \div 1000)))
    ELSE Fin(x.v - (x.v % (QScale \div 1000)) + (QScale \div 1000))

(***************************************************************************)
(* Characters and str methods                                              *)
(***************************************************************************)
UpperToLower ==
    ("A":>"a") @@ ("B":>"b") @@ ("C":>"c") @@ ("D":>"d") @@ ("E":>"e") @@
    ("F":>"f") @@ ("G":>"g") @@ ("H":>"h") @@ ("I":>"i") @@ ("J":>"j") @@
    ("K":>"k") @@ ("L":>"l") @@ ("M":>"m") @@ ("N":>"n") @@ ("O":>"o") @@
    ("P":>"p") @@ ("Q":>"q") @@ ("R":>"r") @@ ("S":>"s") @@ ("T":>"t") @@
    ("U":>"u") @@ ("V":>"v") @@ ("W":>"w") @@ ("X":>"x") @@ ("Y":>"y") @@
    ("Z":>"z")

DigitVal ==
    ("0":>0) @@ ("1":>1) @@ ("2":>2) @@ ("3":>3) @@ ("4":>4) @@
    ("5":>5) @@ ("6":>6) @@ ("7":>7) @@ ("8":>8) @@ ("9":>9)

IsSpace(c) == c = " "

IsDigit(c) == c \in DOMAIN DigitVal

IsLower(c) ==
    c \in {"a", "b", "c", "d", "e", "f", "g", "h", "i", "j", "k", "l", "m",
           "n", "o", "p", "q", "r", "s", "t", "u", "v", "w", "x", "y", "z"}

IsAlphaCh(c) == IsLower(c) \/ c \in DOMAIN UpperToLower

\* \w of the re module
IsWordCh(c) == IsAlphaCh(c) \/ IsDigit(c) \/ c = "_"

\* the character at position i, "" beyond either end
At(t, i) == IF i >= 1 /\ i <= Len(t) THEN t[i] ELSE ""

\* the str made of the characters of cs
RECURSIVE Str(_)
Str(cs) == IF cs = <<>> THEN "" ELSE cs[1] \o Str(Tail(cs))

Sub(t, i, j) == SubSeq(t, i, j - 1)

\* str.lower
lower(t) ==
    [i \in 1..Len(t) |->
        IF t[i] \in DOMAIN UpperToLower THEN UpperToLower[t[i]] ELSE t[i]]

RECURSIVE SpaceRunEnd(_, _)
SpaceRunEnd(t, i) ==
    IF IsSpace(At(t, i)) THEN SpaceRunEnd(t, i + 1) ELSE i

RECURSIVE DigitRunEnd(_, _)
DigitRunEnd(t, i) ==
    IF IsDigit(At(t, i)) THEN DigitRunEnd(t, i + 1) ELSE i

RECURSIVE AlphaRunEnd(_, _)
AlphaRunEnd(t, i) ==
    IF IsLower(At(t, i)) THEN AlphaRunEnd(t, i + 1) ELSE i

RECURSIVE NonSpaceRunEnd(_, _)
NonSpaceRunEnd(t, i) ==
    IF i <= Len(t) /\ ~IsSpace(t[i]) THEN NonSpaceRunEnd(t, i + 1) ELSE i

RECURSIVE SpaceRunStart(_, _)
SpaceRunStart(t, j) ==
    IF IsSpace(At(t, j)) THEN SpaceRunStart(t, j - 1) ELSE j

\* str.strip
strip(t) ==
    IF SpaceRunEnd(t, 1) > SpaceRunStart(t, Len(t)) THEN <<>>
    ELSE SubSeq(t, SpaceRunEnd(t, 1), SpaceRunStart(t, Len(t)))

\* str.split(): the maximal runs of non-space characters from position i on
RECURSIVE SplitFrom(_, _)
SplitFrom(t, i) ==
    IF i > Len(t) THEN <<>>
    ELSE IF IsSpace(t[i]) THEN SplitFrom(t, i + 1)
    ELSE <<Sub(t, i, NonSpaceRunEnd(t, i))>>
           \o SplitFrom(t, NonSpaceRunEnd(t, i))

split(t) == SplitFrom(t, 1)

\* set(text.split()) as a set of str
TokenSet(t) == {Str(split(t)[i]) : i \in 1..Len(split(t))}

\* re.sub(r'\s+', ' ', text)
RECURSIVE CollapseFrom(_, _)
CollapseFrom(t, i) ==
    IF i > Len(t) THEN <<>>
    ELSE IF IsSpace(t[i]) THEN <<" ">> \o CollapseFrom(t, SpaceRunEnd(t, i))
    ELSE <<t[i]>> \o CollapseFrom(t, i + 1)

\* re.search(r'\d', text)
HasDigit(t) == \E i \in 1..Len(t) : IsDigit(t[i])

\* the value of a run of decimal digits
RECURSIVE DigitsVal(_)
DigitsVal(ds) ==
    IF ds = <<>> THEN 0
    ELSE 10 * DigitsVal(SubSeq(ds, 1, Len(ds) - 1)) + DigitVal[ds[Len(ds)]]

\* the value, in 1/QScale, of the digits after a decimal point
RECURSIVE FracVal(_, _)
FracVal(ds, w) ==
    IF ds = <<>> \/ w = 0 THEN 0
    ELSE DigitVal[ds[1]] * w + FracVal(Tail(ds), w \div 10)

\* the float written as the digits ip, a point if fp is not empty, and fp
Decimal(ip, fp) ==
    IF DigitRunEnd(fp, 1) = Len(fp) + 1 /\ Len(ip) + Len(fp) > 0
    THEN [ok  |-> TRUE,
          val |-> Fin(DigitsVal(ip) * QScale + FracVal(fp, QScale \div 10))]
    ELSE [ok |-> FALSE, val |-> NoneF]

\* float(s) for s = digits [ "." [digits] ] | "." digits, no sign
UnsignedDecimal(s) ==
    IF At(s, DigitRunEnd(s, 1)) = "."
    THEN Decimal(Sub(s, 1, DigitRunEnd(s, 1)),
                 SubSeq(s, DigitRunEnd(s, 1) + 1, Len(s)))
    ELSE IF DigitRunEnd(s, 1) = Len(s) + 1 THEN Decimal(s, <<>>)
    ELSE [ok |-> FALSE, val |-> NoneF]

\* float of body with the sign taken off
SignedFloat(neg, body) ==
    IF Str(lower(body)) = "nan" THEN [ok |-> TRUE, val |-> NaN]
    ELSE IF Str(lower(body)) \in {"inf", "infinity"}
         THEN [ok |-> TRUE, val |-> Inf(IF neg THEN -1 ELSE 1)]
    ELSE IF UnsignedDecimal(body).ok
         THEN [ok  |-> TRUE,
               val |-> IF neg THEN Fin(0 - UnsignedDecimal(body).val.v)
                       ELSE UnsignedDecimal(body).val]
    ELSE [ok |-> FALSE, val |-> NoneF]

\* float(token): ok is FALSE where float() raises ValueError.  Covers an
\* optional sign followed by a decimal, "nan", "inf" or "infinity".
float(s) ==
    SignedFloat(At(s, 1) = "-",
                IF At(s, 1) \in {"-", "+"} THEN Tail(s) ELSE s)

\* str.isalpha
isalpha(s) == s # <<>> /\ \A i \in 1..Len(s) : IsAlphaCh(s[i])

SetMax(S) == CHOOSE m \in S : \A x \in S : x <= m

SetMin(S) == CHOOSE m \in S : \A x \in S : m <= x

(***************************************************************************)
(* item_parser.py                                                          *)
(***************************************************************************)
ParseResult ==
    [name |-> None, quantity |-> NoneF, unit |-> None,
     is_accumulate |-> FALSE, is_update |-> FALSE, confidence |-> "none"]

\* ParseResult.has_any
has_any(r) == r.name # None \/ r.quantity # NoneF \/ r.unit # None

\* ParseResult.is_complete, SlotBuffer.is_complete
is_complete(r) == r.name # None /\ r.quantity # NoneF /\ r.unit # None

\* the number_words dict of _normalize, in insertion order
number_words ==
    << <<"one", <<"1">> >>, <<"two", <<"2">> >>, <<"three", <<"3">> >>,
       <<"four", <<"4">> >>, <<"five", <<"5">> >>, <<"six", <<"6">> >>,
       <<"seven", <<"7">> >>, <<"eight", <<"8">> >>, <<"nine", <<"9">> >>,
       <<"ten", <<"1", "0">> >>, <<"half", <<"0", ".", "5">> >>,
       <<"quarter", <<"0", ".", "2", "5">> >> >>

\* re.sub(rf'\b{word}\b', digit, text), scanning from position i
RECURSIVE SubWord(_, _, _, _)
SubWord(t, i, word, digit) ==
    IF i > Len(t) THEN <<>>
    ELSE IF /\ i + Len(word) - 1 <= Len(t)
            /\ Str(Sub(t, i, i + Len(word))) = word
            /\ ~IsWordCh(At(t, i - 1))
            /\ ~IsWordCh(At(t, i + Len(word)))
         THEN digit \o SubWord(t, i + Len(word), word, digit)
    ELSE <<t[i]>> \o SubWord(t, i + 1, word, digit)

RECURSIVE SubNumberWords(_, _)
SubNumberWords(t, k) ==
    IF k > Len(number_words) THEN t
    ELSE SubNumberWords(
             SubWord(t, 1, number_words[k][1], number_words[k][2]), k + 1)

_normalize(text) == SubNumberWords(CollapseFrom(strip(lower(text)), 1), 1)

_detect_accumulate(text) == TokenSet(text) \cap ACCUMULATE_WORDS # {}

_detect_update(text) ==
    TokenSet(text) \cap
        {"change", "update", "modify", "replace", "set", "correct", "edit"}
      # {}

_is_valid_name(word) ==
    IF word = <<>> \/ Len(word) < 3 THEN FALSE
    ELSE IF Str(word) \in STOP_WORDS THEN FALSE
    ELSE IF Str(word) \in DOMAIN UNIT_CANONICAL THEN FALSE
    ELSE IF float(word).ok THEN FALSE
    ELSE IF ~isalpha(word) THEN FALSE
    ELSE TRUE

\* ── Tier 1: the four regular expressions ─────────────────────────────────
\* A match is a record of the groups as character sequences; <<>> is a
\* group that is not in the pattern.

NoMatch == [ok |-> FALSE, qty |-> <<>>, unit |-> <<>>, n |-> <<>>]

Match(q, u, n) == [ok |-> TRUE, qty |-> q, unit |-> u, n |-> n]

\* \d+(?:\.\d+)? at position i: the positions after the match, in the order
\* the regex engine tries them.  Both digit runs are maximal: a shorter run
\* is followed by a digit, which none of \., \s, a unit or \b accepts.
QtyEnds(t, i) ==
    IF ~IsDigit(At(t, i)) THEN <<>>
    ELSE IF /\ At(t, DigitRunEnd(t, i)) = "."
            /\ IsDigit(At(t, DigitRunEnd(t, i) + 1))
         THEN <<DigitRunEnd(t, DigitRunEnd(t, i) + 1), DigitRunEnd(t, i)>>
    ELSE <<DigitRunEnd(t, i)>>

\* the lengths L for which an alternative of _UNIT_PATTERN matches the L
\* characters at s; the alternation is sorted longest first, so the engine
\* tries them in decreasing L
UnitLens(t, s) ==
    {L \in 1..SetMax({Len(u) : u \in KNOWN_UNITS}) :
        s + L - 1 <= Len(t) /\ Str(Sub(t, s, s + L)) \in KNOWN_UNITS}

\* the first match of ms, the attempts in the order the engine makes them
FirstOf(ms) ==
    IF \A k \in 1..Len(ms) : ~ms[k].ok THEN NoMatch
    ELSE ms[SetMin({k \in 1..Len(ms) : ms[k].ok})]

\* (?:of\s+)? at b when [a-z] follows it: the position after it, else b
OfEnd(t, b) ==
    IF /\ b + 1 <= Len(t)
       /\ Str(Sub(t, b, b + 2)) = "of"
       /\ SpaceRunEnd(t, b + 2) > b + 2
       /\ IsLower(At(t, SpaceRunEnd(t, b + 2)))
    THEN SpaceRunEnd(t, b + 2)
    ELSE b

\* where [a-z]+ starts after \s+(?:of\s+)? from position a, else 0
NameStart(t, a) ==
    IF SpaceRunEnd(t, a) = a THEN 0
    ELSE IF IsLower(At(t, OfEnd(t, SpaceRunEnd(t, a))))
         THEN OfEnd(t, SpaceRunEnd(t, a))
    ELSE 0

\* pattern 1 with the quantity in i..e-1 and the unit, one of the lengths
\* good, at s
Match1(t, i, e, s, good) ==
    IF good = {} THEN NoMatch
    ELSE Match(Sub(t, i, e), Sub(t, s, s + SetMax(good)),
               Sub(t, NameStart(t, s + SetMax(good)),
                   AlphaRunEnd(t, NameStart(t, s + SetMax(good)))))

\* (?P<qty>\d+(?:\.\d+)?)\s*(?P<unit>...)\s+(?:of\s+)?(?P<n>[a-z]+)
Pattern1At(t, i) ==
    FirstOf([k \in 1..Len(QtyEnds(t, i)) |->
                Match1(t, i, QtyEnds(t, i)[k],
                       SpaceRunEnd(t, QtyEnds(t, i)[k]),
                       {L \in UnitLens(t, SpaceRunEnd(t, QtyEnds(t, i)[k])) :
                           NameStart(t, SpaceRunEnd(t, QtyEnds(t, i)[k]) + L)
                             # 0})])

\* \s*(?P<unit>...) at e after the quantity in q..e-1, with the name n
QtyUnit(t, q, e, n) ==
    IF UnitLens(t, SpaceRunEnd(t, e)) = {} THEN NoMatch
    ELSE Match(Sub(t, q, e),
               Sub(t, SpaceRunEnd(t, e),
                   SpaceRunEnd(t, e)
                     + SetMax(UnitLens(t, SpaceRunEnd(t, e)))),
               n)

\* (?P<qty>\d+(?:\.\d+)?)\s*(?P<unit>...) at q, with the name n
QtyUnitAt(t, q, n) ==
    FirstOf([k \in 1..Len(QtyEnds(t, q)) |->
                QtyUnit(t, q, QtyEnds(t, q)[k], n)])

\* (?P<qty>\d+(?:\.\d+)?)\b at q, with the name n
QtyWordAt(t, q, n) ==
    FirstOf([k \in 1..Len(QtyEnds(t, q)) |->
                IF IsWordCh(At(t, QtyEnds(t, q)[k])) THEN NoMatch
                ELSE Match(Sub(t, q, QtyEnds(t, q)[k]), <<>>, n)])

\* (?P<n>[a-z]+)\s+(?P<qty>\d+(?:\.\d+)?)\s*(?P<unit>...)
Pattern2At(t, i) ==
    IF \/ AlphaRunEnd(t, i) = i
       \/ SpaceRunEnd(t, AlphaRunEnd(t, i)) = AlphaRunEnd(t, i)
    THEN NoMatch
    ELSE QtyUnitAt(t, SpaceRunEnd(t, AlphaRunEnd(t, i)),
                   Sub(t, i, AlphaRunEnd(t, i)))

\* (?P<qty>\d+(?:\.\d+)?)\s*(?P<unit>...)
Pattern3At(t, i) == QtyUnitAt(t, i, <<>>)

\* (?P<n>[a-z]+)\s+(?P<qty>\d+(?:\.\d+)?)\b
Pattern4At(t, i) ==
    IF \/ AlphaRunEnd(t, i) = i
       \/ SpaceRunEnd(t, AlphaRunEnd(t, i)) = AlphaRunEnd(t, i)
    THEN NoMatch
    ELSE QtyWordAt(t, SpaceRunEnd(t, AlphaRunEnd(t, i)),
                   Sub(t, i, AlphaRunEnd(t, i)))

\* re.search(_PATTERNS[k - 1], text): the match at the leftmost position
\* that has one
_PATTERNS(k, t) ==
    FirstOf([i \in 1..Len(t) |->
                CASE k = 1 -> Pattern1At(t, i)
                  [] k = 2 -> Pattern2At(t, i)
                  [] k = 3 -> Pattern3At(t, i)
                  [] k = 4 -> Pattern4At(t, i)])

\* lines 164-165 of _tier1: the quantity group
Tier1Quantity(m, result) ==
    IF m.qty # <<>> /\ result.quantity = NoneF
    THEN [result EXCEPT !.quantity = float(m.qty).val]
    ELSE result

\* lines 167-169 of _tier1 with the unit kept as it was said
Tier1Unit_spoken(m, result) ==
    IF m.unit # <<>> /\ result.unit = None
    THEN [result EXCEPT !.unit = Str(m.unit)]
    ELSE result

\* lines 167-169 of _tier1: the unit group
Tier1Unit(m, result) ==
    IF m.unit # <<>> /\ result.unit = None
    THEN [result EXCEPT !.unit =
             IF Str(m.unit) \in DOMAIN UNIT_CANONICAL
             THEN UNIT_CANONICAL[Str(m.unit)]
             ELSE Str(m.unit)]
    ELSE result

\* lines 171-174 of _tier1: the name group
Tier1Name(m, result) ==
    IF m.n # <<>> /\ result.name = None /\ _is_valid_name(m.n)
    THEN [result EXCEPT !.name = Str(m.n)]
    ELSE result

\* _tier1 from pattern k on: Tier1Filled is lines 176-177, the break once a
\* quantity is set, and Tier1Matched lines 159-160, the continue
RECURSIVE Tier1From(_, _, _)
Tier1Filled(k, text, r) ==
    IF r.quantity # NoneF THEN r ELSE Tier1From(k + 1, text, r)

Tier1Matched(k, text, result, m) ==
    IF ~m.ok THEN Tier1From(k + 1, text, result)
    ELSE Tier1Filled(k, text,
             Tier1Name(m, Tier1Unit(m, Tier1Quantity(m, result))))

Tier1From(k, text, result) ==
    IF k > 4 THEN result
    ELSE Tier1Matched(k, text, result, _PATTERNS(k, text))

_tier1(text, result) == Tier1From(1, text, result)

\* ── Tier 2: token scan ────────────────────────────────────────────────────
\* the body of the loop of _tier2 for one token
Tier2Token(token, result) ==
    IF result.quantity = NoneF /\ float(token).ok
    THEN [result EXCEPT !.quantity = float(token).val]
    ELSE IF result.unit = None /\ Str(token) \in DOMAIN UNIT_CANONICAL
    THEN [result EXCEPT !.unit = UNIT_CANONICAL[Str(token)]]
    ELSE IF result.name = None /\ _is_valid_name(token)
    THEN [result EXCEPT !.name = Str(token)]
    ELSE result

RECURSIVE Tier2From(_, _, _)
Tier2From(tokens, k, result) ==
    IF k > Len(tokens) THEN result
    ELSE Tier2From(tokens, k + 1, Tier2Token(tokens[k], result))

_tier2(text, result) == Tier2From(split(text), 1, result)

\* lines 80-96 of parse_item: the confidence
SetConfidence(result) ==
    IF is_complete(result)
    THEN [result EXCEPT !.confidence =
             IF result.name \in KNOWN_ITEMS THEN "high" ELSE "medium"]
    ELSE IF ~has_any(result) THEN [result EXCEPT !.confidence = "none"]
    ELSE IF /\ result.name # None
            /\ result.quantity = NoneF
            /\ result.unit = None
            /\ result.name \notin KNOWN_ITEMS
         THEN [result EXCEPT !.confidence = "none", !.name = None]
    ELSE [result EXCEPT !.confidence =
             IF result.name # None \/ result.quantity # NoneF
             THEN "medium" ELSE "low"]

\* lines 98-103 of parse_item: the sanity clamp on the quantity
SanityClamp(result) ==
    IF result.quantity # NoneF
       /\ (\/ FloatLeZero(result.quantity)
           \/ FloatGtInt(result.quantity, MAX_ITEM_QUANTITY))
    THEN [result EXCEPT !.quantity = NoneF,
                        !.confidence = IF @ = "high" THEN "medium" ELSE @]
    ELSE result

\* lines 76-77 of parse_item: tier 2 when tier 1 left a slot empty
Tier2IfIncomplete(text, r1) ==
    IF ~is_complete(r1) THEN _tier2(text, r1) ELSE r1

\* lines 70-105 of parse_item, on the normalized text
ParseNormalized(text) ==
    SanityClamp(SetConfidence(Tier2IfIncomplete(text,
        _tier1(text, [ParseResult EXCEPT
                         !.is_accumulate = _detect_accumulate(text),
                         !.is_update     = _detect_update(text)]))))

parse_item(raw_text) ==
    IF raw_text = <<>> \/ strip(raw_text) = <<>> THEN ParseResult
    ELSE ParseNormalized(_normalize(raw_text))

(***************************************************************************)
(* Utterances.  An utterance is a sequence of words of Spell; its text is *)
(* the words' characters joined by single spaces.                          *)
(***************************************************************************)
Spell ==
    ("5":><<"5">>) @@ ("2":><<"2">>) @@ ("0":><<"0">>) @@
    ("9999":><<"9","9","9","9">>) @@ ("10000":><<"1","0","0","0","0">>) @@
    ("0.5":><<"0",".","5">>) @@ ("-5":><<"-","5">>) @@
    ("nan":><<"n","a","n">>) @@ ("two":><<"t","w","o">>) @@
    ("half":><<"h","a","l","f">>) @@ ("kg":><<"k","g">>) @@
    ("kilos":><<"k","i","l","o","s">>) @@ ("l":><<"l">>) @@
    ("5kg":><<"5","k","g">>) @@ ("rice":><<"r","i","c","e">>) @@
    ("dal":><<"d","a","l">>) @@ ("lemon":><<"l","e","m","o","n">>) @@
    ("mango":><<"m","a","n","g","o">>) @@ ("Rice":><<"R","i","c","e">>) @@
    ("yes":><<"y","e","s">>) @@ ("no":><<"n","o">>) @@ ("ok":><<"o","k">>) @@
    ("more":><<"m","o","r","e">>) @@
    ("change":><<"c","h","a","n","g","e">>) @@ ("fix":><<"f","i","x">>) @@
    ("remove":><<"r","e","m","o","v","e">>) @@
    ("drop":><<"d","r","o","p">>) @@
    ("confirm":><<"c","o","n","f","i","r","m">>) @@
    ("show":><<"s","h","o","w">>) @@ ("bye":><<"b","y","e">>) @@
    ("hello":><<"h","e","l","l","o">>) @@ ("and":><<"a","n","d">>) @@
    ("of":><<"o","f">>) @@ ("add":><<"a","d","d">>) @@
    ("hmm":><<"h","m","m">>)

RECURSIVE Text(_)
Text(u) ==
    IF u = <<>> THEN <<>>
    ELSE IF Len(u) = 1 THEN Spell[u[1]]
    ELSE Spell[u[1]] \o <<" ">> \o Text(Tail(u))

Nums == {"5", "9999"}

Units == {"kg", "kilos"}

Names == {"rice", "dal"}

\* the utterances a caller makes
Utterances ==
    {<<n, u, x>> : n \in Nums, u \in Units, x \in Names}
      \cup {<<x>> : x \in Names \cup {"mango"}}
      \cup {<<n>> : n \in Nums \cup {"nan", "10000"}}
      \cup {<<"kg">>, <<"5", "kg">>}
      \cup {<<w>> : w \in {"yes", "no", "bye", "show", "confirm", "hello",
                           "ok", "hmm", "drop"}}
      \cup {<<"5", "kg", "more", "rice">>, <<"change", "rice", "2", "kg">>,
            <<"remove", "rice">>, <<"remove">>,
            <<"5", "kg", "rice", "and", "dal">>}

\* the position of the first " and " in raw, 0 if there is none
FirstAnd(raw) ==
    IF \A i \in 1..Len(raw) - 4 : Str(Sub(raw, i, i + 5)) # " and " THEN 0
    ELSE SetMin({i \in 1..Len(raw) - 4 : Str(Sub(raw, i, i + 5)) = " and "})

\* raw.split(" and ")[0].strip() where " and " is in raw, else raw
first_clause(raw) ==
    IF FirstAnd(raw) # 0 THEN strip(Sub(raw, 1, FirstAnd(raw))) ELSE raw

\* The texts of Utterances and what the str operations and the parser give
\* for them, computed once: a turn reads user_input.lower().strip() as
\* text_memo[user_input], parse_item(raw) as parse_memo[raw], and so on.
input_memo == [u \in Utterances |-> Text(u)]

text_memo == [t \in {input_memo[u] : u \in Utterances} |-> strip(lower(t))]

RawTexts == {text_memo[t] : t \in DOMAIN text_memo}

tokens_memo == [t \in RawTexts |-> TokenSet(t)]

digit_memo == [t \in RawTexts |-> HasDigit(t)]

clause_memo == [t \in RawTexts |-> first_clause(t)]

parse_memo ==
    [t \in RawTexts \cup {clause_memo[t] : t \in RawTexts} |->
        parse_item(t)]


(***************************************************************************)
(* conversation_state.py                                                   *)
(***************************************************************************)
IDLE == "IDLE"

SLOT_FILLING == "SLOT_FILLING"

AWAITING_CONFIRM == "AWAITING_CONFIRM"

CONFIRMED == "CONFIRMED"

Phase == {IDLE, SLOT_FILLING, AWAITING_CONFIRM, CONFIRMED}

\* the table with AWAITING_CONFIRM left only through CONFIRMED or
\* SLOT_FILLING
_ALLOWED_through_confirmed ==
    (IDLE             :> {SLOT_FILLING, IDLE}) @@
    (SLOT_FILLING     :> {SLOT_FILLING, AWAITING_CONFIRM, IDLE}) @@
    (AWAITING_CONFIRM :> {CONFIRMED, SLOT_FILLING}) @@
    (CONFIRMED        :> {IDLE})

_ALLOWED ==
    (IDLE             :> {SLOT_FILLING, IDLE}) @@
    (SLOT_FILLING     :> {SLOT_FILLING, AWAITING_CONFIRM, IDLE}) @@
    (AWAITING_CONFIRM :> {CONFIRMED, SLOT_FILLING, IDLE}) @@
    (CONFIRMED        :> {IDLE})

\* a new SlotBuffer().  _ask_count is the attribute _ask_for_missing adds to
\* the object; getattr(buf, '_ask_count', 0) reads 0 while it is absent.
SlotBuffer ==
    [name |-> None, quantity |-> NoneF, unit |-> None,
     is_accumulate |-> FALSE, is_update |-> FALSE, _ask_count |-> 0]

missing_slots(buf) ==
    (IF buf.name = None THEN <<"name">> ELSE <<>>) \o
    (IF buf.quantity = NoneF THEN <<"quantity">> ELSE <<>>) \o
    (IF buf.unit = None THEN <<"unit">> ELSE <<>>)

next_missing(buf) ==
    IF missing_slots(buf) # <<>> THEN missing_slots(buf)[1] ELSE None

is_order_confirm(buf) == buf.name = "__ORDER_CONFIRM__"

\* merge_from_parse without the tests for an empty field: the parsed
\* value is written over the one the buffer has
merge_from_parse_overwriting(buf, parsed) ==
    [buf EXCEPT
       !.name     = IF parsed.name # None THEN parsed.name ELSE @,
       !.quantity = IF parsed.quantity # NoneF THEN parsed.quantity ELSE @,
       !.unit     = IF parsed.unit # None THEN parsed.unit ELSE @,
       !.is_accumulate = @ \/ parsed.is_accumulate,
       !.is_update     = @ \/ parsed.is_update]

merge_from_parse(buf, parsed) ==
    [buf EXCEPT
       !.name     = IF parsed.name # None /\ @ = None
                    THEN parsed.name ELSE @,
       !.quantity = IF parsed.quantity # NoneF /\ @ = NoneF
                    THEN parsed.quantity ELSE @,
       !.unit     = IF parsed.unit # None /\ @ = None
                    THEN parsed.unit ELSE @,
       !.is_accumulate = @ \/ parsed.is_accumulate,
       !.is_update     = @ \/ parsed.is_update]

\* clear leaving is_update as it is
clear_keeping_update(buf) ==
    [buf EXCEPT !.name = None, !.quantity = NoneF, !.unit = None,
                !.is_accumulate = FALSE]

\* SlotBuffer.clear: the five declared fields; _ask_count is not touched
clear(buf) ==
    [buf EXCEPT !.name = None, !.quantity = NoneF, !.unit = None,
                !.is_accumulate = FALSE, !.is_update = FALSE]

\* a new ConversationState(session_id): one session is modelled, so
\* session_id is left out
ConversationState ==
    [phase |-> IDLE, slot_buffer |-> SlotBuffer, items |-> <<>>,
     llm_calls |-> 0, turn_count |-> 0]

\* The outcome of a piece of code run on a state: the state as it leaves
\* it, whether InvalidTransitionError is propagating, the phase changes
\* made in order, and the reply once there is one.  Code that raises
\* returns nothing, so a raise leaves no reply.
NoReply == [kind |-> "none", slot |-> None, variant |-> 0]

Running(st) ==
    [st |-> st, raised |-> FALSE, changes |-> <<>>, reply |-> NoReply]

\* transition without the test against _ALLOWED
transition_unchecked(r, target) ==
    [r EXCEPT !.st.phase = target,
              !.changes = Append(@, <<r.st.phase, target>>)]

\* ConversationState.transition
transition(r, target) ==
    IF target \notin _ALLOWED[r.st.phase]
    THEN [r EXCEPT !.raised = TRUE, !.reply = NoReply]
    ELSE [r EXCEPT !.st.phase = target,
                   !.changes = Append(@, <<r.st.phase, target>>)]

\* ConversationState.force_transition
force_transition(r, target) ==
    [r EXCEPT !.st.phase = target,
              !.changes = Append(@, <<r.st.phase, target>>)]

(***************************************************************************)
(* services/voice_agent/llm/decision_engine.py                             *)
(***************************************************************************)
ACKNOWLEDGEMENTS ==
    {"okay", "ok", "alright", "great", "fine", "cool", "sure", "thanks",
     "thank", "nice", "good", "perfect", "wonderful", "aight", "gotcha",
     "noted", "understood", "makes sense"}

IDLE_DEAD_ENDS ==
    {"no", "nope", "nah", "nothing", "nevermind", "never", "mind",
     "forget", "leave", "drop", "skip", "ignore"}

IntentResult(intent, raw_text, llm_used) ==
    [intent |-> intent, raw_text |-> raw_text, llm_used |-> llm_used]

allowed_intents ==
    <<"add_item", "update_item", "remove_item", "show_cart",
      "confirm_order", "greeting", "exit", "clarify">>

\* What the collaborators of _llm_classify can do: the rate limiter denies
\* the call, the model call or the JSON decoding raises, or a response is
\* decoded whose "intent" is the given label.
Llm(kind, intent) == [kind |-> kind, intent |-> intent]

\* _llm_classify without lines 164-165, the test against allowed_intents
_llm_classify_unfiltered(text, st, llm) ==
    IF llm.kind = "denied"
    THEN [res |-> IntentResult("clarify", text, FALSE), st |-> st,
          via |-> "denied"]
    ELSE IF llm.kind = "error"
    THEN [res |-> IntentResult("clarify", text, TRUE), st |-> st,
          via |-> "error"]
    ELSE [res |-> IntentResult(llm.intent, text, TRUE),
          st  |-> [st EXCEPT !.llm_calls = @ + 1],
          via |-> "label"]

\* _llm_classify without line 167, state.llm_calls += 1
_llm_classify_uncounted(text, st, llm) ==
    IF llm.kind = "denied"
    THEN [res |-> IntentResult("clarify", text, FALSE), st |-> st,
          via |-> "denied"]
    ELSE IF llm.kind = "error"
    THEN [res |-> IntentResult("clarify", text, TRUE), st |-> st,
          via |-> "error"]
    ELSE [res |-> IntentResult(
                      IF \E k \in 1..Len(allowed_intents) :
                             allowed_intents[k] = llm.intent
                      THEN llm.intent ELSE "clarify",
                      text, TRUE),
          st  |-> st,
          via |-> "label"]

\* _llm_classify: the IntentResult, the state, whose llm_calls it counts,
\* and in via what was done for it: "denied" is gemini_limiter.acquire()
\* returning False, "error" and "label" the limiter acquired and the model
\* called
_llm_classify(text, st, llm) ==
    IF llm.kind = "denied"
    THEN [res |-> IntentResult("clarify", text, FALSE), st |-> st,
          via |-> "denied"]
    ELSE IF llm.kind = "error"
    THEN [res |-> IntentResult("clarify", text, TRUE), st |-> st,
          via |-> "error"]
    ELSE [res |-> IntentResult(
                      IF \E k \in 1..Len(allowed_intents) :
                             allowed_intents[k] = llm.intent
                      THEN llm.intent ELSE "clarify",
                      text, TRUE),
          st  |-> [st EXCEPT !.llm_calls = @ + 1],
          via |-> "label"]

\* a decision of the rules: no model call, the state as it was
Local(intent, text, st) ==
    [res |-> IntentResult(intent, text, FALSE), st |-> st, via |-> "rule"]

\* line 114 of decide with > for >=
Capped_off_by_one(st) == st.llm_calls > MAX_LLM_CALLS_PER_SESSION

\* line 114 of decide: the session has used its model calls
Capped(st) == st.llm_calls >= MAX_LLM_CALLS_PER_SESSION

\* decide with the tests of lines 96 and 100 in the other order
Rules_update_first(text, tokens, digit, st, llm) ==
    IF st.phase = AWAITING_CONFIRM
    THEN IF tokens \cap AFFIRM_WORDS # {}
         THEN Local("user_confirmed", text, st)
         ELSE IF tokens \cap DENY_WORDS # {}
         THEN Local("user_denied", text, st)
         ELSE Local("confirmation_unclear", text, st)
    ELSE IF st.phase = SLOT_FILLING
    THEN IF tokens \cap EXIT_WORDS # {} THEN Local("exit", text, st)
         ELSE IF tokens \cap DENY_WORDS # {}
         THEN Local("user_denied", text, st)
         ELSE Local("slot_response", text, st)
    ELSE IF tokens \cap EXIT_WORDS # {} THEN Local("exit", text, st)
    ELSE IF tokens \cap SHOW_CART_WORDS # {}
         THEN Local("show_cart", text, st)
    ELSE IF tokens \cap CONFIRM_ORDER_WORDS # {}
         THEN Local("confirm_order", text, st)
    ELSE IF /\ tokens \cap {"hello", "hi", "hey", "heya", "hiya"} # {}
            /\ Cardinality(tokens) <= 3
         THEN Local("greeting", text, st)
    ELSE IF /\ tokens \cap (ACKNOWLEDGEMENTS \cup IDLE_DEAD_ENDS) # {}
            /\ tokens \cap KNOWN_ITEMS = {}
            /\ ~digit
         THEN Local("acknowledgement", text, st)
    ELSE IF tokens \cap UPDATE_WORDS # {}
         THEN Local("update_item", text, st)
    ELSE IF tokens \cap REMOVE_WORDS # {}
         THEN Local("remove_item", text, st)
    ELSE IF digit THEN Local("add_item", text, st)
    ELSE IF tokens \cap KNOWN_UNITS # {} THEN Local("add_item", text, st)
    ELSE IF tokens \cap KNOWN_ITEMS # {} THEN Local("add_item", text, st)
    ELSE IF Capped(st)
         THEN [Local("clarify", text, st) EXCEPT !.via = "cap"]
    ELSE _llm_classify(text, st, llm)

\* lines 63-118 of decide, on text = user_input.lower().strip(), tokens =
\* set(text.split()) and digit = any(c.isdigit() for c in text)
Rules(text, tokens, digit, st, llm) ==
    IF st.phase = AWAITING_CONFIRM
    THEN IF tokens \cap AFFIRM_WORDS # {}
         THEN Local("user_confirmed", text, st)
         ELSE IF tokens \cap DENY_WORDS # {}
         THEN Local("user_denied", text, st)
         ELSE Local("confirmation_unclear", text, st)
    ELSE IF st.phase = SLOT_FILLING
    THEN IF tokens \cap EXIT_WORDS # {} THEN Local("exit", text, st)
         ELSE IF tokens \cap DENY_WORDS # {}
         THEN Local("user_denied", text, st)
         ELSE Local("slot_response", text, st)
    ELSE IF tokens \cap EXIT_WORDS # {} THEN Local("exit", text, st)
    ELSE IF tokens \cap SHOW_CART_WORDS # {}
         THEN Local("show_cart", text, st)
    ELSE IF tokens \cap CONFIRM_ORDER_WORDS # {}
         THEN Local("confirm_order", text, st)
    ELSE IF /\ tokens \cap {"hello", "hi", "hey", "heya", "hiya"} # {}
            /\ Cardinality(tokens) <= 3
         THEN Local("greeting", text, st)
    ELSE IF /\ tokens \cap (ACKNOWLEDGEMENTS \cup IDLE_DEAD_ENDS) # {}
            /\ tokens \cap KNOWN_ITEMS = {}
            /\ ~digit
         THEN Local("acknowledgement", text, st)
    ELSE IF tokens \cap REMOVE_WORDS # {}
         THEN Local("remove_item", text, st)
    ELSE IF tokens \cap UPDATE_WORDS # {}
         THEN Local("update_item", text, st)
    ELSE IF digit THEN Local("add_item", text, st)
    ELSE IF tokens \cap KNOWN_UNITS # {} THEN Local("add_item", text, st)
    ELSE IF tokens \cap KNOWN_ITEMS # {} THEN Local("add_item", text, st)
    ELSE IF Capped(st)
         THEN [Local("clarify", text, st) EXCEPT !.via = "cap"]
    ELSE _llm_classify(text, st, llm)

\* decide: the IntentResult, the state as decide leaves it, and in via how
\* the intent was reached: "rule" by a rule of lines 57-112, "cap" by
\* lines 114-115, else as _llm_classify says
decide(user_input, st, llm) ==
    Rules(text_memo[user_input], tokens_memo[text_memo[user_input]],
          digit_memo[text_memo[user_input]], st, llm)

(***************************************************************************)
(* services/voice_agent/action_executor.py                                 *)
(***************************************************************************)
\* A reply is a record: its kind names the string the source builds (kind
\* "empty" is the empty string), slot and variant the prompt of
\* _ask_for_missing.
Reply(kind) == [kind |-> kind, slot |-> None, variant |-> 0]

\* What the collaborators of a turn can do: groq is "text" (the model
\* returns text), "empty" (it returns only white space) or "error" (the
\* call raises); db is "ok" or "error"; tie_up says how round() breaks a tie.
Env(groq, db, tie_up) == [groq |-> groq, db |-> db, tie_up |-> tie_up]

\* _groq_respond; every caller passes a non-empty context
_groq_respond(r, env) ==
    [r EXCEPT !.reply =
        CASE env.groq = "text"  -> Reply("generated")
          [] env.groq = "empty" -> Reply("empty")
          [] OTHER              -> Reply("context")]

_ask_for_missing(r) ==
    [r EXCEPT
       !.st.slot_buffer._ask_count = @ + 1,
       !.reply =
           IF next_missing(r.st.slot_buffer) \in {"name", "quantity", "unit"}
           THEN [kind |-> "ask", slot |-> next_missing(r.st.slot_buffer),
                 variant |-> IF r.st.slot_buffer._ask_count < 3 - 1
                             THEN r.st.slot_buffer._ask_count
                             ELSE 3 - 1]
           ELSE Reply("clarify_order")]

\* the return of kind that follows a transition, unless it raised
Return(t, kind) ==
    IF t.raised THEN t ELSE [t EXCEPT !.reply = Reply(kind)]

\* ConfirmOrAsk going on to the confirmation whenever a name is there
ConfirmOrAsk_on_name(r) ==
    IF r.raised THEN r
    ELSE IF r.st.slot_buffer.name # None
    THEN Return(transition(r, AWAITING_CONFIRM), "confirm_prompt")
    ELSE _ask_for_missing(r)

\* lines 163-173 and 180-190: the buffer is complete, or ask for a slot;
\* reached only if nothing before it raised
ConfirmOrAsk(r) ==
    IF r.raised THEN r
    ELSE IF is_complete(r.st.slot_buffer)
    THEN Return(transition(r, AWAITING_CONFIRM), "confirm_prompt")
    ELSE _ask_for_missing(r)

\* lines 159-160 of _handle_add_item
LeaveIdle(r) ==
    IF r.st.phase = IDLE THEN transition(r, SLOT_FILLING) ELSE r

\* _handle_add_item with > for >= in the capacity test
_handle_add_item_off_by_one(raw, r, is_update) ==
    IF Len(r.st.items) > MAX_CART_ITEMS
    THEN [r EXCEPT !.reply = Reply("cart_full")]
    ELSE ConfirmOrAsk(LeaveIdle(
             [r EXCEPT
                !.st.slot_buffer =
                    [merge_from_parse(@, parse_memo[clause_memo[raw]])
                       EXCEPT !.is_update = IF is_update THEN TRUE ELSE @]]))

_handle_add_item(raw, r, is_update) ==
    IF Len(r.st.items) >= MAX_CART_ITEMS
    THEN [r EXCEPT !.reply = Reply("cart_full")]
    ELSE ConfirmOrAsk(LeaveIdle(
             [r EXCEPT
                !.st.slot_buffer =
                    [merge_from_parse(@, parse_memo[clause_memo[raw]])
                       EXCEPT !.is_update = IF is_update THEN TRUE ELSE @]]))

_handle_slot_response(raw, r) ==
    ConfirmOrAsk([r EXCEPT !.st.slot_buffer =
                     merge_from_parse(@, parse_memo[raw])])

\* the lookup that finds no entry
Existing_none(items, name) == 0

\* the index of the first cart entry named name, 0 if there is none
Existing(items, name) ==
    IF \A i \in 1..Len(items) : items[i].name # name THEN 0
    ELSE SetMin({i \in 1..Len(items) : items[i].name = name})

\* _save_order returning from the except branch of line 330: nothing is
\* cleared when the insert fails
_save_order_failing_early(r, env) ==
    IF env.db = "ok"
    THEN [force_transition([r EXCEPT !.st.items = <<>>,
                                     !.st.slot_buffer = clear(@)], IDLE)
            EXCEPT !.reply = Reply("order_confirmed")]
    ELSE [r EXCEPT !.reply = Reply("order_confirmed_not_persisted")]

\* _save_order leaving the session in CONFIRMED
_save_order_stays_confirmed(r, env) ==
    [force_transition([r EXCEPT !.st.items = <<>>,
                                !.st.slot_buffer = clear(@)], CONFIRMED)
       EXCEPT !.reply =
          IF env.db = "ok" THEN Reply("order_confirmed")
          ELSE Reply("order_confirmed_not_persisted")]

_save_order(r, env) ==
    [force_transition([r EXCEPT !.st.items = <<>>,
                                !.st.slot_buffer = clear(@)], IDLE)
       EXCEPT !.reply =
          IF env.db = "ok" THEN Reply("order_confirmed")
          ELSE Reply("order_confirmed_not_persisted")]

\* PutItem taking the unit of the buffer when it accumulates
PutItem_taking_unit(r, buf, e, env) ==
    IF e # 0
    THEN [r EXCEPT
            !.st.items[e].quantity =
                IF buf.is_accumulate
                THEN round3(FloatAdd(@, buf.quantity), env.tie_up)
                ELSE buf.quantity,
            !.st.items[e].unit = buf.unit,
            !.reply = IF buf.is_accumulate THEN Reply("added_more")
                      ELSE Reply("updated")]
    ELSE [r EXCEPT
            !.st.items = Append(@, [name |-> buf.name,
                                    quantity |-> buf.quantity,
                                    unit |-> buf.unit]),
            !.reply = Reply("added")]

\* lines 243-260 of _handle_confirmed: the cart entry e of the name is
\* written, or with e = 0 an entry is appended; the reply is msg
PutItem(r, buf, e, env) ==
    IF e # 0
    THEN IF buf.is_accumulate
         THEN [r EXCEPT
                 !.st.items[e].quantity =
                     round3(FloatAdd(@, buf.quantity), env.tie_up),
                 !.reply = Reply("added_more")]
         ELSE [r EXCEPT
                 !.st.items[e].quantity = buf.quantity,
                 !.st.items[e].unit = buf.unit,
                 !.reply = Reply("updated")]
    ELSE [r EXCEPT
            !.st.items = Append(@, [name |-> buf.name,
                                    quantity |-> buf.quantity,
                                    unit |-> buf.unit]),
            !.reply = Reply("added")]

_handle_confirmed(r, env) ==
    IF is_order_confirm(r.st.slot_buffer) THEN _save_order(r, env)
    ELSE IF ~is_complete(r.st.slot_buffer)
    THEN [force_transition(r, IDLE) EXCEPT
             !.st.slot_buffer = clear(@),
             !.reply = Reply("start_over")]
    ELSE transition(
             [PutItem(r, r.st.slot_buffer,
                      Existing(r.st.items, r.st.slot_buffer.name), env)
                EXCEPT !.st.slot_buffer = clear(@)],
             IDLE)

\* _handle_denied emptying the cart when the order is declined
_handle_denied_emptying_cart(r) ==
    [force_transition([r EXCEPT !.st.slot_buffer = clear(@),
                                !.st.items =
                                    IF is_order_confirm(r.st.slot_buffer)
                                    THEN <<>> ELSE @], IDLE)
       EXCEPT !.reply =
          IF is_order_confirm(r.st.slot_buffer)
          THEN Reply("order_not_placed")
          ELSE IF r.st.phase = SLOT_FILLING THEN Reply("dropped")
          ELSE Reply("no_changes")]

\* _handle_denied without lines 280-281: an item awaiting confirmation is
\* left in the buffer
_handle_denied_keeping_item(r) ==
    IF is_order_confirm(r.st.slot_buffer)
    THEN [force_transition([r EXCEPT !.st.slot_buffer = clear(@)], IDLE)
            EXCEPT !.reply = Reply("order_not_placed")]
    ELSE IF r.st.phase = SLOT_FILLING
    THEN [force_transition([r EXCEPT !.st.slot_buffer = clear(@)], IDLE)
            EXCEPT !.reply = Reply("dropped")]
    ELSE [r EXCEPT !.reply = Reply("no_changes")]

_handle_denied(r) ==
    [force_transition([r EXCEPT !.st.slot_buffer = clear(@)], IDLE)
       EXCEPT !.reply =
          IF is_order_confirm(r.st.slot_buffer)
          THEN Reply("order_not_placed")
          ELSE IF r.st.phase = SLOT_FILLING THEN Reply("dropped")
          ELSE Reply("no_changes")]

\* [i for i in items if i["name"] != name]
RECURSIVE Without(_, _)
Without(items, name) ==
    IF items = <<>> THEN <<>>
    ELSE IF items[1].name # name
    THEN <<items[1]>> \o Without(Tail(items), name)
    ELSE Without(Tail(items), name)

_handle_remove_item(raw, r) ==
    IF parse_memo[raw].name = None
    THEN [r EXCEPT !.reply = Reply("which_item")]
    ELSE [r EXCEPT
            !.st.items = Without(@, parse_memo[raw].name),
            !.reply =
                IF Len(Without(r.st.items, parse_memo[raw].name))
                     < Len(r.st.items)
                THEN Reply("removed")
                ELSE Reply("not_in_cart")]

\* _format_cart dropping the item in progress
_format_cart_clearing(r) ==
    IF r.st.items = <<>>
    THEN [r EXCEPT !.st.slot_buffer = clear(@), !.reply = Reply("cart_empty")]
    ELSE [r EXCEPT !.st.slot_buffer = clear(@), !.reply = Reply("cart")]

_format_cart(r) ==
    IF r.st.items = <<>> THEN [r EXCEPT !.reply = Reply("cart_empty")]
    ELSE [r EXCEPT !.reply = Reply("cart")]

\* the confirm_order branch without the test of line 94 for an empty cart
PlaceOrderPrompt_any_cart(r, env) ==
    [force_transition(
        [r EXCEPT
           !.st.slot_buffer =
               [clear(@) EXCEPT !.name = "__ORDER_CONFIRM__"]],
        AWAITING_CONFIRM)
       EXCEPT !.reply = Reply("place_order_prompt")]

\* lines 93-103 of execute, the confirm_order branch
PlaceOrderPrompt(r, env) ==
    IF r.st.items = <<>> THEN _groq_respond(r, env)
    ELSE [force_transition(
             [r EXCEPT
                !.st.slot_buffer =
                    [clear(@) EXCEPT !.name = "__ORDER_CONFIRM__"]],
             AWAITING_CONFIRM)
            EXCEPT !.reply = Reply("place_order_prompt")]

\* lines 68-142 of execute, on intent = intent_result.intent and raw =
\* intent_result.raw_text, after the turn is counted
Handle(intent, raw, r, env) ==
    CASE intent = "user_confirmed" -> _handle_confirmed(r, env)
      [] intent = "user_denied" -> _handle_denied(r)
      [] intent = "confirmation_unclear" -> _groq_respond(r, env)
      [] intent = "slot_response" -> _handle_slot_response(raw, r)
      [] intent = "show_cart" -> _format_cart(r)
      [] intent = "confirm_order" -> PlaceOrderPrompt(r, env)
      [] intent = "greeting" -> _groq_respond(r, env)
      [] intent = "acknowledgement" -> _groq_respond(r, env)
      [] intent = "exit" -> [r EXCEPT !.reply = Reply("__EXIT__")]
      [] intent = "clarify" -> _groq_respond(r, env)
      [] intent = "add_item" -> _handle_add_item(raw, r, FALSE)
      [] intent = "update_item" -> _handle_add_item(raw, r, TRUE)
      [] intent = "remove_item" -> _handle_remove_item(raw, r)
      [] OTHER -> _groq_respond(r, env)

\* execute without line 66, state.turn_count += 1
execute_uncounted(intent_result, st, env) ==
    Handle(intent_result.intent, intent_result.raw_text, Running(st), env)

execute(intent_result, st, env) ==
    Handle(intent_result.intent, intent_result.raw_text,
           Running([st EXCEPT !.turn_count = @ + 1]), env)

(***************************************************************************)
(* Sessions driven one turn at a time (agent_loop.run_agent, api /chat):  *)
(* decide, then execute, on the session's ConversationState.               *)
(***************************************************************************)
VARIABLES state, last, turns, call

vars == <<state, last, turns, call>>

\* the number of turns followed from the initial state
MaxTurns == 4

LlmOutcomes ==
    {Llm("denied", None), Llm("error", None), Llm("label", "user_confirmed")}
      \cup {Llm("label", allowed_intents[k]) : k \in 1..Len(allowed_intents)}

\* a cart of MAX_CART_ITEMS - 1 entries, as 19 add-and-confirm exchanges
\* leave it
FillerNames ==
    <<"wheat", "sugar", "oil", "flour", "salt", "atta", "maida", "sooji",
      "poha", "tea", "coffee", "milk", "ghee", "butter", "bread", "ragi",
      "bajra", "jowar", "besan">>

FillerCart ==
    [i \in 1..Len(FillerNames) |->
        [name |-> FillerNames[i], quantity |-> Fin(5 * QScale),
         unit |-> "kg"]]

\* The states a session is picked up in: a new ConversationState, or one
\* that get_session reloads after 19 items were added and confirmed.
Sessions ==
    {ConversationState,
     [ConversationState EXCEPT !.items = FillerCart,
                               !.turn_count = 2 * Len(FillerCart)]}

NoTurn ==
    [intent |-> "none", llm_used |-> FALSE, via |-> "none",
     raised |-> FALSE, changes |-> <<>>, reply |-> NoReply]

\* call is used by the specifications that call one function directly
NoCall == [fn |-> "none"]

Init ==
    /\ state \in Sessions
    /\ last = NoTurn
    /\ turns = 0
    /\ call = NoCall

\* the outcomes of the fallback that matter: all of them where decide
\* reaches _llm_classify (only then is llm_used set on an error), else one
LlmFor(user_input) ==
    IF decide(user_input, state, Llm("error", None)).res.llm_used
    THEN LlmOutcomes ELSE {Llm("error", None)}

\* the turn leaves the state r.st and is recorded in last
Executed(d, r) ==
    /\ state' = r.st
    /\ last' = [intent   |-> d.res.intent,
                llm_used |-> d.res.llm_used,
                via      |-> d.via,
                raised   |-> r.raised,
                changes  |-> r.changes,
                reply    |-> r.reply]

\* execute(intent_result, state) on the decision d, which is one of intents
Decided(d, intents, Envs) ==
    /\ d.res.intent \in intents
    /\ \E env \in Envs : Executed(d, execute(d.res, d.st, env))

\* One turn on utterance u: decide(user_input, state) then
\* execute(intent_result, state), where decide gives one of intents and the
\* collaborators behave as one of Envs.
TurnOn(u, intents, Envs) ==
    \E llm \in LlmFor(input_memo[u]) :
        Decided(decide(input_memo[u], state, llm), intents, Envs)

Turn(intent, Envs) ==
    /\ turns < MaxTurns
    /\ \E u \in Utterances : TurnOn(u, {intent}, Envs)
    /\ turns' = turns + 1
    /\ UNCHANGED call

Quiet == {Env("text", "ok", TRUE)}

GroqOutcomes == {Env(g, "ok", TRUE) : g \in {"text", "empty", "error"}}

ConfirmOutcomes ==
    {Env("text", db, tie) : db \in {"ok", "error"}, tie \in BOOLEAN}

AllOutcomes ==
    {Env(g, db, tie) : g \in {"text", "empty", "error"},
                       db \in {"ok", "error"}, tie \in BOOLEAN}

\* the phase guards are the phase tests of decide (lines 57, 66)
UserConfirmed ==
    state.phase = AWAITING_CONFIRM /\ Turn("user_confirmed", ConfirmOutcomes)

ConfirmationUnclear ==
    state.phase = AWAITING_CONFIRM
      /\ Turn("confirmation_unclear", GroqOutcomes)

UserDenied ==
    state.phase \in {AWAITING_CONFIRM, SLOT_FILLING}
      /\ Turn("user_denied", Quiet)

SlotResponse ==
    state.phase = SLOT_FILLING /\ Turn("slot_response", Quiet)

Exit ==
    state.phase # AWAITING_CONFIRM /\ Turn("exit", Quiet)

AddItem ==
    state.phase \notin {AWAITING_CONFIRM, SLOT_FILLING}
      /\ Turn("add_item", Quiet)

UpdateItem ==
    state.phase \notin {AWAITING_CONFIRM, SLOT_FILLING}
      /\ Turn("update_item", Quiet)

RemoveItem ==
    state.phase \notin {AWAITING_CONFIRM, SLOT_FILLING}
      /\ Turn("remove_item", Quiet)

ShowCart ==
    state.phase \notin {AWAITING_CONFIRM, SLOT_FILLING}
      /\ Turn("show_cart", Quiet)

ConfirmOrder ==
    state.phase \notin {AWAITING_CONFIRM, SLOT_FILLING}
      /\ Turn("confirm_order", GroqOutcomes)

Greeting ==
    state.phase \notin {AWAITING_CONFIRM, SLOT_FILLING}
      /\ Turn("greeting", GroqOutcomes)

Acknowledgement ==
    state.phase \notin {AWAITING_CONFIRM, SLOT_FILLING}
      /\ Turn("acknowledgement", GroqOutcomes)

Clarify ==
    state.phase \notin {AWAITING_CONFIRM, SLOT_FILLING}
      /\ Turn("clarify", GroqOutcomes)

Next ==
    \/ AddItem
    \/ UpdateItem
    \/ SlotResponse
    \/ UserConfirmed
    \/ UserDenied
    \/ ConfirmationUnclear
    \/ ShowCart
    \/ ConfirmOrder
    \/ Greeting
    \/ Acknowledgement
    \/ Exit
    \/ Clarify
    \/ RemoveItem

Spec == Init /\ [][Next]_vars

(***************************************************************************)
(* services/voice_agent/memory_manager.py, for one session id: cache is   *)
(* the entry of _cache (NoneF if there is none), db is _db (None, the     *)
(* database, or False), doc the document of the sessions collection, or    *)
(* NoneF.                                                                  *)
(***************************************************************************)
MemoryManager == [cache |-> NoneF, db |-> "None"]

\* What the database does in one call: connect is whether get_db() returns
\* (it is asked only while _db is None), op whether the read or the write
\* returns ("ok") or raises ("error").
DbEnv(connect, op) == [connect |-> connect, op |-> op]

DbEnvs == {DbEnv(c, op) : c \in BOOLEAN, op \in {"ok", "error"}}

_get_db(mm, env) ==
    IF mm.db = "None"
    THEN [mm EXCEPT !.db = IF env.connect THEN "db" ELSE "False"]
    ELSE mm

to_mongo_doc(st) ==
    [phase |-> st.phase,
     slot_buffer |-> [name |-> st.slot_buffer.name,
                      quantity |-> st.slot_buffer.quantity,
                      unit |-> st.slot_buffer.unit,
                      is_accumulate |-> st.slot_buffer.is_accumulate,
                      is_update |-> st.slot_buffer.is_update],
     items |-> st.items,
     llm_calls |-> st.llm_calls,
     turn_count |-> st.turn_count]

from_mongo_doc(doc) ==
    [ConversationState EXCEPT
        !.phase = doc.phase,
        !.items = doc.items,
        !.llm_calls = doc.llm_calls,
        !.turn_count = doc.turn_count,
        !.slot_buffer =
            [SlotBuffer EXCEPT
                !.name = doc.slot_buffer.name,
                !.quantity = doc.slot_buffer.quantity,
                !.unit = doc.slot_buffer.unit,
                !.is_accumulate = doc.slot_buffer.is_accumulate,
                !.is_update = doc.slot_buffer.is_update]]

\* the state st is cached and returned
Cached(mm, doc, st) ==
    [mm |-> [mm EXCEPT !.cache = st], doc |-> doc, st |-> st,
     raised |-> FALSE]

\* lines 44-58 of get_session, after _get_db
Load(mm, doc, env) ==
    IF mm.db = "db" /\ env.op = "ok" /\ doc # NoneF
    THEN Cached(mm, doc, from_mongo_doc(doc))
    ELSE Cached(mm, doc, ConversationState)

get_session(mm, doc, env) ==
    IF mm.cache # NoneF
    THEN [mm |-> mm, doc |-> doc, st |-> mm.cache, raised |-> FALSE]
    ELSE Load(_get_db(mm, env), doc, env)

\* save_session without the try of line 73: a failed write raises
save_session_unguarded(mm, doc, st, env) ==
    IF _get_db(mm, env).db = "db"
    THEN [mm |-> [_get_db(mm, env) EXCEPT !.cache = st],
          doc |-> IF env.op = "ok" THEN to_mongo_doc(st) ELSE doc,
          st |-> st, raised |-> env.op # "ok"]
    ELSE [mm |-> [_get_db(mm, env) EXCEPT !.cache = st], doc |-> doc,
          st |-> st, raised |-> FALSE]

save_session(mm, doc, st, env) ==
    [mm |-> [_get_db(mm, env) EXCEPT !.cache = st],
     doc |-> IF _get_db(mm, env).db = "db" /\ env.op = "ok"
             THEN to_mongo_doc(st) ELSE doc,
     st |-> st, raised |-> FALSE]

(***************************************************************************)
(* shared/events/event_bus.py, services/analytics/outcome_classifier.py   *)
(* and services/campaign_manager/retry_engine.py.  A world w has the      *)
(* stream of events, the collections call_outcomes, retry_queue and       *)
(* sessions (the session ids that have a document), and log, which        *)
(* remembers for each call id what the handlers printed for it.            *)
(***************************************************************************)
\* RETRY_RULES with no retry after a silence timeout
RETRY_RULES_no_silence ==
    ("completed"       :> [retry |-> FALSE, delay_hours |-> 0]) @@
    ("silence_timeout" :> [retry |-> FALSE, delay_hours |-> 0]) @@
    ("duration_cap"    :> [retry |-> FALSE, delay_hours |-> 0]) @@
    ("no_answer"       :> [retry |-> TRUE,  delay_hours |-> 2]) @@
    ("call_failed"     :> [retry |-> TRUE,  delay_hours |-> 1]) @@
    ("user_hung_up"    :> [retry |-> TRUE,  delay_hours |-> 6])

RETRY_RULES ==
    ("completed"       :> [retry |-> FALSE, delay_hours |-> 0]) @@
    ("silence_timeout" :> [retry |-> TRUE,  delay_hours |-> 4]) @@
    ("duration_cap"    :> [retry |-> FALSE, delay_hours |-> 0]) @@
    ("no_answer"       :> [retry |-> TRUE,  delay_hours |-> 2]) @@
    ("call_failed"     :> [retry |-> TRUE,  delay_hours |-> 1]) @@
    ("user_hung_up"    :> [retry |-> TRUE,  delay_hours |-> 6])

MAX_RETRY_ATTEMPTS == 3

\* RETRY_RULES.get(outcome, {"retry": False, "delay_hours": 0})
Rule(outcome) ==
    IF outcome \in DOMAIN RETRY_RULES THEN RETRY_RULES[outcome]
    ELSE [retry |-> FALSE, delay_hours |-> 0]

BaseEvent(event_type, call_id, session_id, payload) ==
    [event_type |-> event_type, call_id |-> call_id,
     session_id |-> session_id, payload |-> payload]

\* What the collaborators do while one event is handled: db says whether
\* the MongoDB calls return or raise, bus whether publish (xadd) does.
BusEnv(db, bus) == [db |-> db, bus |-> bus]

BusEnvs == {BusEnv(db, bus) : db \in {"ok", "error"}, bus \in {"ok", "error"}}

publish(w, event) == [w EXCEPT !.stream = Append(@, event)]

\* lines 32-48 of classify_and_emit: the classification is inserted, or
\* the error printed
Classified(w, e, env) ==
    [w EXCEPT
       !.call_outcomes =
           IF env.db = "ok"
           THEN @ \cup {[call_id |-> e.call_id,
                         session_id |-> e.session_id,
                         outcome |-> e.payload.outcome,
                         retry_recommended |-> Rule(e.payload.outcome).retry,
                         retry_delay_hours |->
                             Rule(e.payload.outcome).delay_hours]}
           ELSE @,
       !.log[e.call_id].classify =
           IF env.db = "ok" THEN "saved" ELSE "mongodb_error"]

\* classify_and_emit; a publish that raises leaves the handler, and
\* consume prints the handler error
classify_and_emit(w, e, env) ==
    IF env.bus = "ok"
    THEN [publish(Classified(w, e, env),
                  BaseEvent("analytics.outcome_classified", e.call_id,
                            e.session_id,
                            [outcome |-> e.payload.outcome,
                             retry_recommended |->
                                 Rule(e.payload.outcome).retry,
                             retry_delay_hours |->
                                 Rule(e.payload.outcome).delay_hours]))
            EXCEPT !.log[e.call_id].emitted = "published"]
    ELSE [Classified(w, e, env)
            EXCEPT !.log[e.call_id].emitted = "handler_error"]

\* db.call_outcomes.count_documents({session_id, retry_recommended: True})
retry_count(w, session_id) ==
    Cardinality({d \in w.call_outcomes :
                    d.session_id = session_id /\ d.retry_recommended})

\* lines 46-68 of handle_retry: the retry is inserted and the call
\* scheduled; a publish that raises is caught at line 70
Schedule(w, e, env) ==
    IF env.bus = "ok"
    THEN [publish([w EXCEPT
                      !.retry_queue =
                          @ \cup {[original_call_id |-> e.call_id,
                                   session_id |-> e.session_id,
                                   retry_attempt |->
                                       retry_count(w, e.session_id) + 1,
                                   status |-> "scheduled"]}],
                  BaseEvent("call.scheduled",
                            <<e.call_id, "retry",
                              retry_count(w, e.session_id) + 1>>,
                            e.session_id,
                            [is_retry |-> TRUE,
                             retry_attempt |->
                                 retry_count(w, e.session_id) + 1]))
            EXCEPT !.log[e.call_id].retry = "scheduled"]
    ELSE [w EXCEPT
            !.retry_queue =
                @ \cup {[original_call_id |-> e.call_id,
                         session_id |-> e.session_id,
                         retry_attempt |->
                             retry_count(w, e.session_id) + 1,
                         status |-> "scheduled"]},
            !.log[e.call_id].retry = "error_after_insert"]

\* handle_retry without the test of line 24
handle_retry_always(w, e, env) ==
    IF env.db # "ok"
    THEN [w EXCEPT !.log[e.call_id].retry = "error"]
    ELSE IF e.session_id \notin w.sessions
    THEN [w EXCEPT !.log[e.call_id].retry = "session_not_found"]
    ELSE IF retry_count(w, e.session_id) >= MAX_RETRY_ATTEMPTS
    THEN [w EXCEPT !.log[e.call_id].retry = "max_retries"]
    ELSE Schedule(w, e, env)

handle_retry(w, e, env) ==
    IF ~e.payload.retry_recommended
    THEN [w EXCEPT !.log[e.call_id].retry = "no_retry"]
    ELSE IF env.db # "ok"
    THEN [w EXCEPT !.log[e.call_id].retry = "error"]
    ELSE IF e.session_id \notin w.sessions
    THEN [w EXCEPT !.log[e.call_id].retry = "session_not_found"]
    ELSE IF retry_count(w, e.session_id) >= MAX_RETRY_ATTEMPTS
    THEN [w EXCEPT !.log[e.call_id].retry = "max_retries"]
    ELSE Schedule(w, e, env)

(***************************************************************************)
(* shared/utils/circuit_breaker.py.  A breaker cb is the record of the    *)
(* fields of a CircuitBreaker; now is what time.time() returns.            *)
(***************************************************************************)
failure_threshold == 3

recovery_timeout == 60

success_threshold == 2

CircuitBreaker ==
    [_state |-> "CLOSED", _failure_count |-> 0, _success_count |-> 0,
     _last_failure_ts |-> None]

\* the state property that leaves OPEN whatever the time
CircuitBreaker_state_eager(cb, now) ==
    IF cb._state = "OPEN"
    THEN [cb EXCEPT !._state = "HALF_OPEN", !._success_count = 0]
    ELSE cb

\* the state property: the breaker after it is read; _state is its value
CircuitBreaker_state(cb, now) ==
    IF cb._state = "OPEN" /\ now - cb._last_failure_ts >= recovery_timeout
    THEN [cb EXCEPT !._state = "HALF_OPEN", !._success_count = 0]
    ELSE cb

is_available(cb, now) == CircuitBreaker_state(cb, now)._state # "OPEN"

record_success(cb) ==
    IF cb._state = "HALF_OPEN"
    THEN IF cb._success_count + 1 >= success_threshold
         THEN [cb EXCEPT !._success_count = @ + 1, !._state = "CLOSED",
                         !._failure_count = 0]
         ELSE [cb EXCEPT !._success_count = @ + 1]
    ELSE IF cb._state = "CLOSED"
    THEN [cb EXCEPT !._failure_count = 0]
    ELSE cb

record_failure(cb, now) ==
    [cb EXCEPT !._failure_count = @ + 1,
               !._last_failure_ts = now,
               !._state = IF cb._failure_count + 1 >= failure_threshold
                          THEN "OPEN" ELSE @]

(***************************************************************************)
(* parse_item called directly on every utterance of at most MaxTokens     *)
(* words of ParseWords.                                                    *)
(***************************************************************************)
MaxTokens == 3

ParseWords ==
    {"5", "0", "10000", "-5", "nan", "half", "kg", "l", "5kg",
     "rice", "lemon", "mango", "more", "of"}

RECURSIVE Seqs(_, _)
Seqs(S, n) ==
    IF n = 0 THEN {<<>>}
    ELSE Seqs(S, n - 1) \cup
         {Append(s, x) : s \in {q \in Seqs(S, n - 1) : Len(q) = n - 1},
                         x \in S}

ParseInputs == Seqs(ParseWords, MaxTokens) \ {<<>>}

InitParse ==
    /\ state = ConversationState
    /\ last = NoTurn
    /\ turns = 0
    /\ call \in {[fn |-> "input", u |-> u, result |-> ParseResult] :
                    u \in ParseInputs}

CallParseItem ==
    /\ call.fn = "input"
    /\ call' = [fn |-> "parse_item", u |-> call.u,
                result |-> parse_item(Text(call.u))]
    /\ UNCHANGED <<state, last, turns>>

NextParse == CallParseItem

SpecParse == InitParse /\ [][NextParse]_vars

(***************************************************************************)
(* The methods of ConversationState and SlotBuffer called directly, in    *)
(* any order, on a new ConversationState.                                  *)
(***************************************************************************)
\* the ParseResults merged: what parse_item gives for these utterances
MergeInputs ==
    {<<"rice">>, <<"lemon">>, <<"5">>, <<"half">>, <<"kg">>, <<"l">>,
     <<"5", "kg">>, <<"half", "l", "lemon">>, <<"more">>,
     <<"change", "rice", "2", "kg">>}

MergeArgs == {parse_item(Text(u)) : u \in MergeInputs}

InitMethods ==
    /\ state = ConversationState
    /\ last = NoTurn
    /\ turns = 0
    /\ call = NoCall

\* state.transition(target)
CallTransition ==
    \E target \in Phase :
        LET r == transition(Running(state), target)
        IN  /\ state' = r.st
            /\ call' = [fn |-> "transition", target |-> target,
                        pre |-> state.phase, raised |-> r.raised]
            /\ UNCHANGED <<last, turns>>

\* state.force_transition(target)
CallForceTransition ==
    \E target \in Phase :
        LET r == force_transition(Running(state), target)
        IN  /\ state' = r.st
            /\ call' = [fn |-> "force_transition", target |-> target,
                        pre |-> state.phase, raised |-> r.raised]
            /\ UNCHANGED <<last, turns>>

\* state.slot_buffer.merge_from_parse(parsed); call remembers the buffer
\* before the call and, when the call before was a merge too, that one's
\* buffer and argument
CallMerge ==
    \E parsed \in MergeArgs :
        /\ state' = [state EXCEPT
                        !.slot_buffer = merge_from_parse(@, parsed)]
        /\ call' = [fn |-> "merge_from_parse", parsed |-> parsed,
                    pre |-> state.slot_buffer,
                    twice |-> call.fn = "merge_from_parse",
                    parsed0 |-> IF call.fn = "merge_from_parse"
                                THEN call.parsed ELSE ParseResult,
                    pre0 |-> IF call.fn = "merge_from_parse"
                             THEN call.pre ELSE state.slot_buffer]
        /\ UNCHANGED <<last, turns>>

\* state.slot_buffer.clear()
CallClear ==
    /\ state' = [state EXCEPT !.slot_buffer = clear(@)]
    /\ call' = [fn |-> "clear", pre |-> state.slot_buffer]
    /\ UNCHANGED <<last, turns>>

NextMethods ==
    \/ CallTransition
    \/ CallForceTransition
    \/ CallMerge
    \/ CallClear

SpecMethods == InitMethods /\ [][NextMethods]_vars

(***************************************************************************)
(* A session of a caller who is not understood: every utterance is one    *)
(* that no rule of decide matches, and the model fails, or gives a label  *)
(* that adds nothing to the slot buffer.                                   *)
(***************************************************************************)
\* the number of turns followed
MaxFallbackTurns == 52

FallbackUtterances == {<<"hmm">>}

FallbackIntents ==
    {"clarify", "greeting", "show_cart", "confirm_order", "exit",
     "remove_item"}

\* call counts the utterances in a row, up to the last one, that no rule
\* matched, remembers whether that was ever more than
\* MAX_LLM_CALLS_PER_SESSION, and counts the labels the model has given
InitFallback ==
    /\ state = ConversationState
    /\ last = NoTurn
    /\ turns = 0
    /\ call = [fn |-> "misses", misses |-> 0, exceeded |-> FALSE,
               labels |-> 0]

FallbackTurn ==
    /\ turns < MaxFallbackTurns
    /\ \E u \in FallbackUtterances :
           TurnOn(u, FallbackIntents, GroqOutcomes)
    /\ turns' = turns + 1
    /\ call' = [fn       |-> "misses",
                misses   |-> IF last'.via = "rule" THEN 0
                             ELSE call.misses + 1,
                exceeded |-> \/ call.exceeded
                             \/ /\ last'.via # "rule"
                                /\ call.misses + 1
                                     > MAX_LLM_CALLS_PER_SESSION,
                labels   |-> IF last'.via = "label" THEN call.labels + 1
                             ELSE call.labels]

NextFallback == FallbackTurn

SpecFallback == InitFallback /\ [][NextFallback]_vars


(***************************************************************************)
(* decide called directly: the rules of lines 57-118 on every set of at   *)
(* most MaxDecideTokens words of DecideWords, in each phase a session is   *)
(* in.                                                                     *)
(***************************************************************************)
MaxDecideTokens == 4

DecideWords ==
    {"yes", "no", "bye", "show", "confirm", "hello", "ok", "drop",
     "remove", "change", "kg", "rice", "5", "hmm"}

DecideInputs ==
    {T \in SUBSET DecideWords : T # {} /\ Cardinality(T) <= MaxDecideTokens}

InitDecide ==
    /\ state \in {[ConversationState EXCEPT !.phase = p] :
                     p \in {IDLE, SLOT_FILLING, AWAITING_CONFIRM}}
    /\ last = NoTurn
    /\ turns = 0
    /\ call \in {[fn |-> "tokens", tokens |-> T, llm |-> llm,
                  d |-> Local("none", <<>>, ConversationState)] :
                    T \in DecideInputs,
                    llm \in {Llm("error", None), Llm("label", "exit")}}

\* re.search(r'\d', text) for a text of these words
AnyDigit(tokens) == \E w \in tokens : HasDigit(Spell[w])

CallDecide ==
    /\ call.fn = "tokens"
    /\ call' = [call EXCEPT
                  !.fn = "decide",
                  !.d = Rules(<<>>, call.tokens, AnyDigit(call.tokens),
                              state, call.llm)]
    /\ UNCHANGED <<state, last, turns>>

NextDecide == CallDecide

SpecDecide == InitDecide /\ [][NextDecide]_vars

(***************************************************************************)
(* The MemoryManager called directly: sessions saved and loaded in any    *)
(* order, the database failing at will, the process restarted.             *)
(***************************************************************************)
\* the states saved: a new one, with an item in progress, with an item to
\* confirm, with a cart
MemStates ==
    {ConversationState,
     [ConversationState EXCEPT
        !.phase = SLOT_FILLING, !.turn_count = 1,
        !.slot_buffer = [SlotBuffer EXCEPT !.name = "rice",
                                           !._ask_count = 1]],
     [ConversationState EXCEPT
        !.phase = AWAITING_CONFIRM, !.turn_count = 1,
        !.slot_buffer = [SlotBuffer EXCEPT !.name = "rice",
                                           !.quantity = Fin(5 * QScale),
                                           !.unit = "kg"]],
     [ConversationState EXCEPT
        !.turn_count = 2,
        !.items = <<[name |-> "rice", quantity |-> Fin(5 * QScale),
                     unit |-> "kg"]>>],
     [ConversationState EXCEPT
        !.turn_count = 3, !.llm_calls = 1,
        !.items = <<[name |-> "rice", quantity |-> Fin(5 * QScale),
                     unit |-> "kg"]>>]}

InitMemory ==
    /\ state = ConversationState
    /\ last = NoTurn
    /\ turns = 0
    /\ call = [fn |-> "MemoryManager", mm |-> MemoryManager, doc |-> NoneF,
               raised |-> FALSE]

\* the call fn returned r
MemCall(fn, r) ==
    /\ state' = r.st
    /\ call' = [fn |-> fn, mm |-> r.mm, doc |-> r.doc, raised |-> r.raised]
    /\ UNCHANGED <<last, turns>>

CallSaveSession ==
    \E st \in MemStates : \E env \in DbEnvs :
        MemCall("save_session", save_session(call.mm, call.doc, st, env))

CallGetSession ==
    \E env \in DbEnvs :
        MemCall("get_session", get_session(call.mm, call.doc, env))

\* a new process: memory = MemoryManager()
Restart ==
    /\ call' = [call EXCEPT !.fn = "MemoryManager", !.mm = MemoryManager]
    /\ UNCHANGED <<state, last, turns>>

NextMemory ==
    \/ CallSaveSession
    \/ CallGetSession
    \/ Restart

SpecMemory == InitMemory /\ [][NextMemory]_vars

(***************************************************************************)
(* One session driven turn after turn by one of the three orchestrators:  *)
(* agent_loop.run_agent, POST /chat of services/api/main.py, and          *)
(* ConversationController._flush_utterance.  The caller says one of       *)
(* SessionUtterances; the database is up or down for the whole session.    *)
(***************************************************************************)
\* the number of turns followed
MaxSessionTurns == 102

SessionUtterances == {<<"5", "kg", "rice">>, <<"ok">>, <<"bye">>}

\* call.dbup says whether the database answers
SessionDb == DbEnv(call.dbup, IF call.dbup THEN "ok" ELSE "error")

\* run_agent and the controller make a new ConversationState and put it in
\* the cache; chat asks get_session for it on each request
InitSession ==
    /\ state = ConversationState
    /\ last = NoTurn
    /\ turns = 0
    /\ call \in {[fn |-> "session", entry |-> e, open |-> TRUE,
                  dbup |-> up, doc |-> NoneF,
                  mm |-> [MemoryManager EXCEPT
                             !.cache = IF e = "chat" THEN NoneF
                                       ELSE ConversationState]] :
                    e \in {"run_agent", "chat", "controller"},
                    up \in BOOLEAN}

\* decide(user_input, state) and execute(intent_result, state) on the
\* session's state st; the utterances are decided by the rules
DecideExecute(u, st) ==
    /\ turns < MaxSessionTurns
    /\ Executed(decide(input_memo[u], st, Llm("error", None)),
                execute(decide(input_memo[u], st, Llm("error", None)).res,
                        decide(input_memo[u], st, Llm("error", None)).st,
                        Env("text", "ok", TRUE)))
    /\ turns' = turns + 1

\* memory.save_session(state) on the manager and the document g has, and
\* the orchestrator stopping on the reply "__EXIT__" if stops
SaveSession(g, stops) ==
    call' = [call EXCEPT
               !.mm = save_session(g.mm, g.doc, state', SessionDb).mm,
               !.doc = save_session(g.mm, g.doc, state', SessionDb).doc,
               !.open = ~(stops /\ last'.reply.kind = "__EXIT__")]

\* lines 52-54 of run_agent: the turn limit guard
RunAgentLimit ==
    /\ call.entry = "run_agent" /\ call.open
    /\ state.turn_count >= MAX_TURNS_PER_SESSION
    /\ call' = [call EXCEPT !.open = FALSE]
    /\ UNCHANGED <<state, last, turns>>

\* lines 56-71 of run_agent
RunAgentTurn ==
    /\ call.entry = "run_agent" /\ call.open
    /\ state.turn_count < MAX_TURNS_PER_SESSION
    /\ \E u \in SessionUtterances : DecideExecute(u, state)
    /\ SaveSession(call, TRUE)

\* POST /chat
Chat ==
    /\ call.entry = "chat"
    /\ \E u \in SessionUtterances :
           DecideExecute(u, get_session(call.mm, call.doc, SessionDb).st)
    /\ SaveSession(get_session(call.mm, call.doc, SessionDb), FALSE)

\* the API process is started again: memory = MemoryManager()
ChatRestart ==
    /\ call.entry = "chat"
    /\ call.mm.cache # NoneF
    /\ call' = [call EXCEPT !.mm = MemoryManager]
    /\ UNCHANGED <<state, last, turns>>

\* lines 173-181 of _flush_utterance
ControllerTurn ==
    /\ call.entry = "controller" /\ call.open
    /\ \E u \in SessionUtterances : DecideExecute(u, state)
    /\ SaveSession(call, TRUE)

NextSession ==
    \/ RunAgentLimit
    \/ RunAgentTurn
    \/ Chat
    \/ ChatRestart
    \/ ControllerTurn

SpecSession == InitSession /\ [][NextSession]_vars

(***************************************************************************)
(* POST /chat served by two threads of the server's pool, for one session *)
(* id: a request goes through get_session, decide, execute and            *)
(* save_session, each taken as one step; state is the ConversationState   *)
(* object the cache holds, which the requests share.                       *)
(***************************************************************************)
\* the number of requests followed
MaxChatRequests == 4

Threads == {1, 2}

InitChat ==
    /\ state = ConversationState
    /\ last = NoTurn
    /\ turns = 0
    /\ call = [fn |-> "chat", mm |-> MemoryManager, doc |-> NoneF,
               dbup |-> TRUE,
               req |-> [t \in Threads |->
                           [pc |-> "idle", message |-> <<>>,
                            intent_result |->
                                IntentResult("none", <<>>, FALSE)]]]

\* line 116: state = memory.get_session(req.session_id)
ChatGetSession(t) ==
    /\ call.req[t].pc = "idle"
    /\ turns < MaxChatRequests
    /\ turns' = turns + 1
    /\ \E u \in SessionUtterances :
          call' = [call EXCEPT
                     !.mm = get_session(call.mm, call.doc, SessionDb).mm,
                     !.req[t].pc = "get_session",
                     !.req[t].message = u]
    /\ state' = IF call.mm.cache = NoneF
                THEN get_session(call.mm, call.doc, SessionDb).st
                ELSE state
    /\ UNCHANGED last

\* line 118: intent_result = decide(req.message, state)
ChatDecide(t) ==
    /\ call.req[t].pc = "get_session"
    /\ state' = decide(input_memo[call.req[t].message], state,
                       Llm("error", None)).st
    /\ call' = [call EXCEPT
                  !.req[t].pc = "decide",
                  !.req[t].intent_result =
                      decide(input_memo[call.req[t].message], state,
                             Llm("error", None)).res]
    /\ UNCHANGED <<last, turns>>

\* line 119: response = execute(intent_result, state)
ChatExecute(t) ==
    /\ call.req[t].pc = "decide"
    /\ Executed([res |-> call.req[t].intent_result, via |-> "rule"],
                execute(call.req[t].intent_result, state,
                        Env("text", "ok", TRUE)))
    /\ call' = [call EXCEPT !.req[t].pc = "execute"]
    /\ UNCHANGED turns

\* lines 120-131: memory.save_session(state) and the response
ChatSaveSession(t) ==
    /\ call.req[t].pc = "execute"
    /\ call' = [call EXCEPT
                  !.mm = save_session(call.mm, call.doc, state,
                                      SessionDb).mm,
                  !.doc = save_session(call.mm, call.doc, state,
                                       SessionDb).doc,
                  !.req[t].pc = "idle"]
    /\ UNCHANGED <<state, last, turns>>

NextChat ==
    \E t \in Threads :
        \/ ChatGetSession(t)
        \/ ChatDecide(t)
        \/ ChatExecute(t)
        \/ ChatSaveSession(t)

SpecChat == InitChat /\ [][NextChat]_vars

(***************************************************************************)
(* The feedback loop: calls end and their call.ended events are           *)
(* published; the outcome classifier and the retry engine each consume    *)
(* the stream in their own consumer group, one event at a time.            *)
(***************************************************************************)
\* the number of calls that end
MaxCalls == 2

Outcomes == {"completed", "duration_cap", "silence_timeout", "busy"}

\* the session the calls belong to
SessionId == "s1"

\* the outcomes of the calls while liveness is checked
LiveOutcomes == {"completed", "silence_timeout"}

\* the session has a document in sessions, or none; the calls end with
\* one of outcomes
FeedbackStart(outcomes) ==
    /\ state = ConversationState
    /\ last = NoTurn
    /\ turns = 0
    /\ \E stored \in SUBSET {SessionId} :
        call = [fn |-> "feedback", outcomes |-> outcomes,
               stream |-> <<>>,
               read |-> [analytics |-> 1, campaign |-> 1],
               call_outcomes |-> {}, retry_queue |-> {},
               sessions |-> stored,
               log |-> [c \in 1..MaxCalls |->
                          [outcome |-> "none", session_id |-> "none",
                           classify |-> "none", emitted |-> "none",
                           retry |-> "none"]]]

InitFeedback == FeedbackStart(Outcomes)

InitFeedbackLive == FeedbackStart(LiveOutcomes)

\* publish(CallEndedEvent(call_id, session_id, payload)); the calls are
\* numbered as they end
PublishCallEnded ==
    /\ turns < MaxCalls
    /\ turns' = turns + 1
    /\ \E outcome \in call.outcomes :
          call' = [publish(call, BaseEvent("call.ended", turns + 1,
                                           SessionId,
                                           [outcome |-> outcome]))
                     EXCEPT !.log[turns + 1].outcome = outcome,
                            !.log[turns + 1].session_id = SessionId]
    /\ UNCHANGED <<state, last>>

\* the event the consumer group reads next
Unread(group) == call.stream[call.read[group]]

\* consume(): one entry is read, handled if its type is in event_types,
\* and acknowledged, also when the handler raised
ConsumeAnalytics ==
    /\ call.read.analytics <= Len(call.stream)
    /\ \E env \in BusEnvs :
          call' = [(IF Unread("analytics").event_type = "call.ended"
                    THEN classify_and_emit(call, Unread("analytics"), env)
                    ELSE call)
                     EXCEPT !.read.analytics = @ + 1]
    /\ UNCHANGED <<state, last, turns>>

ConsumeCampaign ==
    /\ call.read.campaign <= Len(call.stream)
    /\ \E env \in BusEnvs :
          call' = [(IF Unread("campaign").event_type
                          = "analytics.outcome_classified"
                    THEN handle_retry(call, Unread("campaign"), env)
                    ELSE call)
                     EXCEPT !.read.campaign = @ + 1]
    /\ UNCHANGED <<state, last, turns>>

NextFeedback ==
    \/ PublishCallEnded
    \/ ConsumeAnalytics
    \/ ConsumeCampaign

SpecFeedback == InitFeedback /\ [][NextFeedback]_vars

\* both consumers run: consume() loops for ever
SpecFeedbackLive ==
    /\ InitFeedbackLive
    /\ [][NextFeedback]_vars
    /\ WF_vars(ConsumeAnalytics)
    /\ WF_vars(ConsumeCampaign)

(***************************************************************************)
(* One breaker used by two callers through the decorator and through      *)
(* call().  A call is two steps, its start up to the wrapped function and *)
(* the return of the function, so that calls can overlap; step is the     *)
(* step taken last, and during[t] the state of the breaker when the call  *)
(* that caller t has in the function was let through.                      *)
(***************************************************************************)
\* the number of times the clock is advanced
MaxTicks == 4

\* the number of times the wrapped function is invoked
MaxInvoked == 5

Callers == {1, 2}

NoStep == [op |-> "none", t |-> 0, result |-> "none"]

InitBreaker ==
    /\ state = ConversationState
    /\ last = NoTurn
    /\ turns = 0
    /\ call = [fn |-> "breaker", cb |-> CircuitBreaker, now |-> 0,
               pc |-> [t \in Callers |-> "idle"],
               during |-> [t \in Callers |-> "none"], invoked |-> 0,
               step |-> NoStep]

\* the start of wrapper() or call(): CircuitOpenError, or func is invoked
Begin(t, via) ==
    /\ call.pc[t] = "idle"
    /\ call.invoked < MaxInvoked
    /\ call' = IF is_available(call.cb, call.now)
               THEN [call EXCEPT
                       !.cb = CircuitBreaker_state(call.cb, call.now),
                       !.pc[t] = via,
                       !.during[t] =
                           CircuitBreaker_state(call.cb, call.now)._state,
                       !.invoked = @ + 1,
                       !.step = [op |-> "begin", t |-> t,
                                 result |-> "invoked"]]
               ELSE [call EXCEPT
                       !.cb = CircuitBreaker_state(call.cb, call.now),
                       !.step = [op |-> "begin", t |-> t,
                                 result |-> "CircuitOpenError"]]
    /\ UNCHANGED <<state, last, turns>>

BreakerWrapper(t) == Begin(t, "wrapper")

BreakerCall(t) == Begin(t, "call")

\* func returns, raises CircuitOpenError itself, or raises something else
AfterFunc(cb, outcome, now) ==
    IF outcome = "ok" THEN record_success(cb)
    ELSE IF outcome = "CircuitOpenError" THEN cb
    ELSE record_failure(cb, now)

FuncReturns(t) ==
    /\ call.pc[t] # "idle"
    /\ \E outcome \in {"ok", "CircuitOpenError", "error"} :
          call' = [call EXCEPT
                     !.cb = AfterFunc(call.cb, outcome, call.now),
                     !.pc[t] = "idle",
                     !.during[t] = "none",
                     !.step = [op |-> "end", t |-> t, result |-> outcome]]
    /\ UNCHANGED <<state, last, turns>>

\* time.time() moves on by a second, or by a second less than the timeout
Tick ==
    /\ turns < MaxTicks
    /\ turns' = turns + 1
    /\ \E d \in {1, recovery_timeout - 1} :
          call' = [call EXCEPT !.now = @ + d,
                               !.step = [op |-> "tick", t |-> 0,
                                         result |-> "none"]]
    /\ UNCHANGED <<state, last>>

NextBreaker ==
    \/ \E t \in Callers :
          \/ BreakerWrapper(t)
          \/ BreakerCall(t)
          \/ FuncReturns(t)
    \/ Tick

SpecBreaker == InitBreaker /\ [][NextBreaker]_vars

(***************************************************************************)
(* A confirmation turn on a session that waits for the answer to "shall I *)
(* add this item?", for carts and buffers that turns can leave behind.    *)
(***************************************************************************)
\* carts with the quantities 5, 9999, 0.0004 and 0.0005
ConfirmCarts ==
    {<<>>,
     <<[name |-> "rice", quantity |-> Fin(5 * QScale), unit |-> "kg"]>>,
     <<[name |-> "dal", quantity |-> Fin(4), unit |-> "kg"],
       [name |-> "rice", quantity |-> Fin(5), unit |-> "kg"]>>,
     <<[name |-> "rice", quantity |-> Fin(9999 * QScale), unit |-> "kg"],
       [name |-> "mango", quantity |-> Fin(5 * QScale), unit |-> "litre"],
       [name |-> "dal", quantity |-> Fin(5 * QScale), unit |-> "kg"]>>}

ConfirmQuantities == {Fin(5 * QScale), Fin(4), Fin(5)}

\* the complete item buffers
ConfirmBuffers ==
    {[SlotBuffer EXCEPT !.name = n, !.quantity = q, !.unit = u,
                        !.is_accumulate = acc, !.is_update = upd] :
        n \in {"rice", "dal", "mango"}, q \in ConfirmQuantities,
        u \in {"kg", "litre"}, acc \in BOOLEAN, upd \in BOOLEAN}

InitConfirm ==
    /\ \E items \in ConfirmCarts : \E buf \in ConfirmBuffers :
          state = [ConversationState EXCEPT
                      !.phase = AWAITING_CONFIRM, !.slot_buffer = buf,
                      !.items = items, !.turn_count = 2 * Len(items) + 1]
    /\ last = NoTurn
    /\ turns = 0
    /\ call = [fn |-> "confirm", before |-> ConversationState]

\* the caller says yes; before keeps the state the turn started from
ConfirmTurn ==
    /\ call.fn = "confirm"
    /\ state.phase = AWAITING_CONFIRM
    /\ TurnOn(<<"yes">>, {"user_confirmed"}, ConfirmOutcomes)
    /\ turns' = turns + 1
    /\ call' = [call EXCEPT !.before = state]

NextConfirm == ConfirmTurn

SpecConfirm == InitConfirm /\ [][NextConfirm]_vars

(***************************************************************************)
(* DELETE /session/{id} beside POST /chat.  The ConversationState objects *)
(* are told apart: heap holds them in the order they were made, cached is *)
(* the one _cache has for the session (0 for none), req[t].obj the one    *)
(* request t got from get_session.  epoch counts the resets; req[t].epoch *)
(* is its value when request t started.  state is the state that          *)
(* get_session serves.                                                     *)
(***************************************************************************)
\* the number of /chat requests
MaxResetRequests == 3

\* the number of DELETE requests
MaxResets == 1

NoRequest ==
    [pc |-> "idle", message |-> <<>>, obj |-> 0, epoch |-> 0,
     intent_result |-> IntentResult("none", <<>>, FALSE)]

\* what memory.get_session(session_id) returns now
Served(c) == IF c.cached = 0 THEN ConversationState ELSE c.heap[c.cached]

\* the step to c
ResetStep(c) == call' = c /\ state' = Served(c)

InitReset ==
    /\ state = ConversationState
    /\ last = NoTurn
    /\ turns = 0
    /\ call = [fn |-> "reset", mm |-> MemoryManager, doc |-> NoneF,
               dbup |-> TRUE, heap |-> <<>>, cached |-> 0, epoch |-> 0,
               touched |-> FALSE,
               req |-> [t \in Threads |-> NoRequest]]

\* chat, line 116: the cached object, or a new one put in the cache
ResetGetSession(t) ==
    /\ call.req[t].pc = "idle"
    /\ turns < MaxResetRequests
    /\ turns' = turns + 1
    /\ \E u \in SessionUtterances :
          ResetStep(
            IF call.cached = 0
            THEN [call EXCEPT
                    !.heap = Append(@, get_session(call.mm, call.doc,
                                                   SessionDb).st),
                    !.cached = Len(call.heap) + 1,
                    !.req[t] = [NoRequest EXCEPT
                                  !.pc = "get_session", !.message = u,
                                  !.obj = Len(call.heap) + 1,
                                  !.epoch = call.epoch]]
            ELSE [call EXCEPT
                    !.req[t] = [NoRequest EXCEPT
                                  !.pc = "get_session", !.message = u,
                                  !.obj = call.cached,
                                  !.epoch = call.epoch]])
    /\ UNCHANGED last

\* chat, line 118, on the object the request holds
ResetDecide(t) ==
    /\ call.req[t].pc = "get_session"
    /\ ResetStep([call EXCEPT
                    !.heap[call.req[t].obj] =
                        decide(input_memo[call.req[t].message], @,
                               Llm("error", None)).st,
                    !.req[t].pc = "decide",
                    !.req[t].intent_result =
                        decide(input_memo[call.req[t].message],
                               call.heap[call.req[t].obj],
                               Llm("error", None)).res])
    /\ UNCHANGED <<last, turns>>

\* chat, line 119; touched says that a request that started after the
\* last reset has run a turn on the object get_session serves
ResetExecute(t) ==
    /\ call.req[t].pc = "decide"
    /\ ResetStep([call EXCEPT
                    !.heap[call.req[t].obj] =
                        execute(call.req[t].intent_result, @,
                                Env("text", "ok", TRUE)).st,
                    !.touched = @ \/ call.req[t].epoch = call.epoch,
                    !.req[t].pc = "execute"])
    /\ UNCHANGED <<last, turns>>

\* chat, lines 120-131: save_session puts the request's object in the cache
ResetSaveSession(t) ==
    /\ call.req[t].pc = "execute"
    /\ ResetStep([call EXCEPT
                    !.cached = call.req[t].obj,
                    !.mm = save_session(call.mm, call.doc,
                                        call.heap[call.req[t].obj],
                                        SessionDb).mm,
                    !.doc = save_session(call.mm, call.doc,
                                         call.heap[call.req[t].obj],
                                         SessionDb).doc,
                    !.req[t].pc = "idle"])
    /\ UNCHANGED <<last, turns>>

\* reset_session: a new ConversationState is cached and saved
ResetSession ==
    /\ call.fn = "reset"
    /\ call.epoch < MaxResets
    /\ ResetStep([call EXCEPT
                    !.heap = Append(@, ConversationState),
                    !.cached = Len(call.heap) + 1,
                    !.mm = save_session(call.mm, call.doc,
                                        ConversationState, SessionDb).mm,
                    !.doc = save_session(call.mm, call.doc,
                                         ConversationState, SessionDb).doc,
                    !.epoch = @ + 1,
                    !.touched = FALSE])
    /\ UNCHANGED <<last, turns>>

NextReset ==
    \/ \E t \in Threads :
          \/ ResetGetSession(t)
          \/ ResetDecide(t)
          \/ ResetExecute(t)
          \/ ResetSaveSession(t)
    \/ ResetSession

SpecReset == InitReset /\ [][NextReset]_vars

(***************************************************************************)
(* Properties                                                              *)
(***************************************************************************)
EmptyBuffer(buf) ==
    /\ buf.name = None /\ buf.quantity = NoneF /\ buf.unit = None
    /\ ~buf.is_accumulate /\ ~buf.is_update

\* the utterances '<n> <unit> <name>'
Shape1 == {<<n, u, x>> : n \in Nums, u \in Units, x \in Names}

\* the number each n of Shape1 writes
NumValue == [n \in Nums |-> IF n = "5" THEN 5 ELSE 9999]

\* the cart entries named name
Entries(items, name) == {i \in 1..Len(items) : items[i].name = name}

\* every turn on '<n> <unit> <name>' from IDLE with an empty buffer and
\* room in the cart is an add_item turn that ends in AWAITING_CONFIRM
\* holding the item, whatever the collaborators do
AddCompletes ==
    LET Held(u, r) ==
            /\ ~r.raised
            /\ r.st.phase = AWAITING_CONFIRM
            /\ r.st.slot_buffer.name = u[3]
            /\ r.st.slot_buffer.quantity = Fin(NumValue[u[1]] * QScale)
            /\ r.st.slot_buffer.unit = UNIT_CANONICAL[u[2]]
            /\ ~r.st.slot_buffer.is_accumulate
            /\ r.st.items = state.items
        Adds(u, d) ==
            /\ d.res.intent = "add_item"
            /\ \A env \in AllOutcomes : Held(u, execute(d.res, d.st, env))
    IN  (/\ state.phase = IDLE
         /\ EmptyBuffer(state.slot_buffer)
         /\ Len(state.items) < MAX_CART_ITEMS)
        => \A u \in Shape1 : \A llm \in LlmFor(input_memo[u]) :
             Adds(u, decide(input_memo[u], state, llm))

\* the state is the one such an add_item turn has just left
JustAdded ==
    /\ last.intent = "add_item"
    /\ state.phase = AWAITING_CONFIRM
    /\ ~state.slot_buffer.is_accumulate
    /\ \E u \in Shape1 :
         /\ state.slot_buffer.name = u[3]
         /\ state.slot_buffer.quantity = Fin(NumValue[u[1]] * QScale)
         /\ state.slot_buffer.unit = UNIT_CANONICAL[u[2]]

\* C1 as stated: after such an add_item turn, an affirmative turn adds one
\* cart entry with the name, quantity and unit and ends in IDLE
C1_AsStated ==
    /\ []AddCompletes
    /\ [][(JustAdded /\ last'.intent = "user_confirmed")
          => /\ Len(state'.items) = Len(state.items) + 1
             /\ state'.items[Len(state'.items)] =
                    [name     |-> state.slot_buffer.name,
                     quantity |-> state.slot_buffer.quantity,
                     unit     |-> state.slot_buffer.unit]
             /\ state'.phase = IDLE]_vars

\* C1 amended: the affirmative turn leaves exactly one cart entry of that
\* name, with the quantity and unit of the buffer: appended when the name
\* was not in the cart, written over the entry of that name when it was;
\* the other entries stay, and the turn ends in IDLE
C1_ConfirmedAdd ==
    /\ []AddCompletes
    /\ [][(JustAdded /\ last'.intent = "user_confirmed")
          => LET buf  == state.slot_buffer
                 item == [name |-> buf.name, quantity |-> buf.quantity,
                          unit |-> buf.unit]
                 e    == Entries(state.items, buf.name)
             IN  /\ Cardinality(Entries(state'.items, buf.name)) = 1
                 /\ IF e = {}
                    THEN state'.items = Append(state.items, item)
                    ELSE /\ Cardinality(e) = 1
                         /\ state'.items =
                              [state.items EXCEPT ![SetMin(e)] = item]
                 /\ state'.phase = IDLE]_vars

\* a single-turn add was confirmed for a name the cart already had
C1_Witness ==
    /\ last.intent = "user_confirmed"
    /\ last.reply.kind = "updated"
    /\ state.phase = IDLE
    /\ Len(state.items) = 1
    /\ ~last.raised

\* C2: no two cart entries have the same name
C2_UniqueNames ==
    \A i, j \in 1..Len(state.items) :
        i # j => state.items[i].name # state.items[j].name

\* a second name was appended to the cart
C2_Witness ==
    /\ Len(state.items) = 2
    /\ last.intent = "user_confirmed"
    /\ last.reply.kind = "added"

CartBounded == Len(state.items) <= MAX_CART_ITEMS

\* C3: the cart never holds more than MAX_CART_ITEMS entries, and an
\* add_item or update_item turn on a full cart is refused and leaves the
\* phase, the slot buffer and the cart as they were
C3_CartCapacity ==
    [][/\ CartBounded
       /\ CartBounded'
       /\ (/\ Len(state.items) >= MAX_CART_ITEMS
           /\ last'.intent \in {"add_item", "update_item"})
          => /\ last'.reply.kind = "cart_full"
             /\ state'.phase = state.phase
             /\ state'.phase # SLOT_FILLING
             /\ state'.slot_buffer = state.slot_buffer
             /\ state'.items = state.items]_vars

\* an update_item turn was refused on a full cart
C3_Witness ==
    /\ Len(state.items) = MAX_CART_ITEMS
    /\ last.intent = "update_item"
    /\ last.reply.kind = "cart_full"

\* the transitions listed as legal
Listed ==
    {<<IDLE, IDLE>>, <<IDLE, SLOT_FILLING>>,
     <<SLOT_FILLING, SLOT_FILLING>>, <<SLOT_FILLING, AWAITING_CONFIRM>>,
     <<SLOT_FILLING, IDLE>>,
     <<AWAITING_CONFIRM, CONFIRMED>>, <<AWAITING_CONFIRM, SLOT_FILLING>>,
     <<AWAITING_CONFIRM, IDLE>>,
     <<CONFIRMED, IDLE>>}

\* C4: every phase change of a turn, validated or forced, is a listed one
C4_OnlyListedChanges ==
    \A k \in 1..Len(last.changes) : last.changes[k] \in Listed

\* C5: a validated transition sets the phase to the target when the
\* target is listed for the current phase; otherwise it raises
\* InvalidTransitionError and leaves the phase as it was
C5_ValidatedTransition ==
    call.fn = "transition" =>
        IF <<call.pre, call.target>> \in Listed
        THEN ~call.raised /\ state.phase = call.target
        ELSE call.raised /\ state.phase = call.pre

\* transition(SLOT_FILLING) was called in CONFIRMED and raised
C5_Witness ==
    /\ call.fn = "transition"
    /\ call.pre = CONFIRMED
    /\ call.target = SLOT_FILLING
    /\ call.raised
    /\ state.phase = CONFIRMED

\* C6: no turn of a session raises InvalidTransitionError, whatever the
\* LLM fallback returns
C6_NeverRaises == ~last.raised

\* a turn whose intent came from the LLM fallback made a validated
\* transition
C6_Witness ==
    /\ last.llm_used
    /\ last.intent = "add_item"
    /\ last.changes # <<>>
    /\ ~last.raised

\* C7: no turn ends in CONFIRMED; a turn that enters CONFIRMED leaves it
\* for IDLE at once
C7_NeverEndsConfirmed ==
    /\ state.phase # CONFIRMED
    /\ \A k \in 1..Len(last.changes) :
          last.changes[k][2] = CONFIRMED =>
              /\ k < Len(last.changes)
              /\ last.changes[k + 1] = <<CONFIRMED, IDLE>>

\* the order was confirmed and the turn ended in IDLE
C7_Witness ==
    /\ last.intent = "user_confirmed"
    /\ last.reply.kind = "order_confirmed"
    /\ state.phase = IDLE
    /\ state.items = <<>>

\* C8: merge_from_parse leaves a name, quantity or unit that is set as it
\* was, and leaves is_accumulate and is_update true once they are
C8_MergeFillsOnlyEmpty ==
    call.fn = "merge_from_parse" =>
        LET pre == call.pre
            buf == state.slot_buffer
        IN  /\ pre.name # None => buf.name = pre.name
            /\ pre.quantity # NoneF => buf.quantity = pre.quantity
            /\ pre.unit # None => buf.unit = pre.unit
            /\ pre.is_accumulate => buf.is_accumulate
            /\ pre.is_update => buf.is_update

\* a parse with another name, quantity and unit was merged into a buffer
\* that had all three and both flags
C8_Witness ==
    /\ call.fn = "merge_from_parse"
    /\ call.pre.name \notin {None, call.parsed.name}
    /\ call.pre.quantity \notin {NoneF, call.parsed.quantity}
    /\ call.pre.unit \notin {None, call.parsed.unit}
    /\ call.parsed.name # None
    /\ call.parsed.quantity # NoneF
    /\ call.parsed.unit # None
    /\ call.pre.is_accumulate /\ call.pre.is_update
    /\ ~call.parsed.is_accumulate /\ ~call.parsed.is_update

\* the two parses do not set one field, empty in buf, to two values
Agree(buf, p1, p2) ==
    /\ buf.name # None \/ p1.name = None \/ p2.name = None
          \/ p1.name = p2.name
    /\ buf.quantity # NoneF \/ p1.quantity = NoneF \/ p2.quantity = NoneF
          \/ p1.quantity = p2.quantity
    /\ buf.unit # None \/ p1.unit = None \/ p2.unit = None
          \/ p1.unit = p2.unit

\* C9 as stated: merging p1 then p2 gives the buffer that merging p2 then
\* p1 gives, for any buffer and any two parses
C9_AsStated ==
    (call.fn = "merge_from_parse" /\ call.twice) =>
        state.slot_buffer =
            merge_from_parse(merge_from_parse(call.pre0, call.parsed),
                             call.parsed0)

\* C9 amended: merging p1 then p2 gives the buffer that merging p2 then p1
\* gives, when p1 and p2 do not set one field, empty in the buffer, to two
\* values
C9_OrderIndependent ==
    (/\ call.fn = "merge_from_parse"
     /\ call.twice
     /\ Agree(call.pre0, call.parsed0, call.parsed)) =>
        state.slot_buffer =
            merge_from_parse(merge_from_parse(call.pre0, call.parsed),
                             call.parsed0)

\* two parses with different fields set were merged one after the other
\* into a buffer that had a name
C9_Witness ==
    /\ call.fn = "merge_from_parse"
    /\ call.twice
    /\ call.pre0.name # None
    /\ call.pre0.quantity = NoneF
    /\ call.parsed0.name \notin {None, call.pre0.name}
    /\ call.parsed0.quantity # NoneF
    /\ call.parsed.unit # None
    /\ call.parsed # call.parsed0
    /\ Agree(call.pre0, call.parsed0, call.parsed)

\* C10: the quantity of a ParseResult is empty or is greater than 0 and at
\* most MAX_ITEM_QUANTITY
C10_QuantityInRange ==
    call.fn = "parse_item" =>
        LET q == call.result.quantity
        IN  \/ q = NoneF
            \/ /\ q.k = "fin"
               /\ q.v > 0
               /\ q.v <= MAX_ITEM_QUANTITY * QScale

\* C11: llm_calls never exceeds MAX_LLM_CALLS_PER_SESSION; in every state
\* where it has reached the cap, whatever the rate limiter and the model
\* would do, an utterance that no rule matches gets clarify by lines
\* 114-115 of decide, with neither of them consulted and llm_used False;
\* and a session at the cap stays at the cap
C11_CapDisablesFallback ==
    /\ [](state.llm_calls <= MAX_LLM_CALLS_PER_SESSION)
    /\ [](state.llm_calls >= MAX_LLM_CALLS_PER_SESSION
          => \A u \in Utterances : \A llm \in LlmOutcomes :
               LET d == decide(input_memo[u], state, llm)
               IN  /\ d.via \in {"rule", "cap"}
                   /\ d.via = "cap"
                        => /\ d.res.intent = "clarify"
                           /\ ~d.res.llm_used
                           /\ d.st = state)
    /\ [][state.llm_calls >= MAX_LLM_CALLS_PER_SESSION
          => /\ state'.llm_calls = state.llm_calls
             /\ last'.via \in {"rule", "cap"}]_vars

\* at the cap, an utterance that no rule matches was answered clarify
\* without the model
C11_Witness ==
    /\ state.llm_calls = MAX_LLM_CALLS_PER_SESSION
    /\ last.via = "cap"
    /\ last.intent = "clarify"
    /\ ~last.llm_used

\* the labels the model had given before the last turn
LabelsBefore ==
    IF last.via = "label" THEN call.labels - 1 ELSE call.labels

\* C12 as stated: once more than MAX_LLM_CALLS_PER_SESSION utterances in a
\* row have matched no rule, that utterance and every later one that no
\* rule matches gets clarify without the model, whatever the earlier
\* attempts gave
C12_AsStated ==
    (call.fn = "misses" /\ call.exceeded /\ last.via # "rule")
        => last.via = "cap" /\ last.intent = "clarify"

\* C12 amended: the same, when MAX_LLM_CALLS_PER_SESSION of the earlier
\* attempts ended with a label from the model; an attempt that the rate
\* limiter denied or that raised is not counted
C12_LabelsExhaustBudget ==
    (/\ call.fn = "misses"
     /\ call.exceeded
     /\ last.via # "rule"
     /\ LabelsBefore >= MAX_LLM_CALLS_PER_SESSION)
        => last.via = "cap" /\ last.intent = "clarify"

\* the utterance after MAX_LLM_CALLS_PER_SESSION labelled ones was
\* answered clarify without the model
C12_Witness ==
    /\ call.fn = "misses"
    /\ call.exceeded
    /\ call.misses = MAX_LLM_CALLS_PER_SESSION + 1
    /\ call.labels = MAX_LLM_CALLS_PER_SESSION
    /\ last.via = "cap"

\* the intents execute has a branch for (lines 69-140)
HandledIntents ==
    {"user_confirmed", "user_denied", "confirmation_unclear",
     "slot_response", "show_cart", "confirm_order", "greeting",
     "acknowledgement", "exit", "clarify", "add_item", "update_item",
     "remove_item"}

\* C13: in every state and for every utterance, decide returns one of the
\* intents execute handles, and returns clarify when the rate limiter
\* denies the call, when the model call or the decoding of its response
\* raises, and when the label is not one of allowed_intents
C13_FailuresGiveClarify ==
    \A u \in Utterances : \A llm \in LlmFor(input_memo[u]) :
        LET d == decide(input_memo[u], state, llm)
        IN  /\ d.res.intent \in HandledIntents
            /\ d.via \in {"denied", "error"} => d.res.intent = "clarify"
            /\ (/\ d.via = "label"
                /\ \A k \in 1..Len(allowed_intents) :
                       allowed_intents[k] # llm.intent)
                 => d.res.intent = "clarify"

\* a turn in which the rate limiter denied the model call
C13_Witness ==
    /\ last.via = "denied"
    /\ last.intent = "clarify"
    /\ ~last.llm_used


\* C14: every turn returns the end-of-session sentinel or a non-empty
\* reply string: execute never raises and its reply is never the empty
\* string, whatever the generation model and the database do
C14_ReplyNonEmpty ==
    last.intent # "none" =>
        /\ ~last.raised
        /\ last.reply # NoReply
        /\ last.reply.kind # "empty"

\* C15: classification leaves the state as it was: for every utterance and
\* every outcome of the external fallback, the state after decide equals
\* the state before it in every field
C15_DecideLeavesState ==
    \A u \in Utterances : \A llm \in LlmOutcomes :
        decide(input_memo[u], state, llm).st = state

\* the text of an utterance; the branches of execute below do not read it
AnyRaw == CHOOSE raw \in RawTexts : TRUE

\* C16: in every state whose buffer holds the whole-order sentinel, a
\* user_confirmed turn ends with an empty cart, an empty slot buffer and
\* phase IDLE and replies with the order confirmation, whether the insert
\* into the database succeeds or raises
C16_OrderFinalized ==
    is_order_confirm(state.slot_buffer) =>
        \A env \in AllOutcomes :
            LET r == execute(IntentResult("user_confirmed", AnyRaw, FALSE),
                             state, env)
            IN  /\ ~r.raised
                /\ r.st.items = <<>>
                /\ EmptyBuffer(r.st.slot_buffer)
                /\ r.st.phase = IDLE
                /\ r.reply.kind = IF env.db = "ok"
                                  THEN "order_confirmed"
                                  ELSE "order_confirmed_not_persisted"

\* an order was confirmed while the insert into the database failed
C16_Witness ==
    /\ last.intent = "user_confirmed"
    /\ last.reply.kind = "order_confirmed_not_persisted"
    /\ state.items = <<>>
    /\ EmptyBuffer(state.slot_buffer)
    /\ state.phase = IDLE

\* C17: in every state, whatever the phase and the buffer, a user_denied
\* turn ends with phase IDLE and an empty slot buffer and leaves the cart
\* as it was
C17_DeniedKeepsCart ==
    \A env \in AllOutcomes :
        LET r == execute(IntentResult("user_denied", AnyRaw, FALSE),
                         state, env)
        IN  /\ ~r.raised
            /\ r.st.phase = IDLE
            /\ EmptyBuffer(r.st.slot_buffer)
            /\ r.st.items = state.items

\* the three cases were denied with a cart that is not empty: the whole
\* order, an item in progress, an item awaiting confirmation
C17_Witness ==
    /\ last.intent = "user_denied"
    /\ last.reply.kind = "no_changes"
    /\ state.items # <<>>
    /\ state.phase = IDLE
    /\ EmptyBuffer(state.slot_buffer)

\* C18: in every state a confirm_order turn leaves the cart as it was; with
\* an empty cart it also leaves the phase and the slot buffer as they were,
\* and with a cart that is not empty it puts the whole-order sentinel in
\* the buffer and moves to AWAITING_CONFIRM
C18_ConfirmOrderNeedsCart ==
    \A env \in AllOutcomes :
        LET r == execute(IntentResult("confirm_order", AnyRaw, FALSE),
                         state, env)
        IN  /\ ~r.raised
            /\ r.st.items = state.items
            /\ IF state.items = <<>>
               THEN /\ r.st.phase = state.phase
                    /\ r.st.slot_buffer = state.slot_buffer
                    /\ r.reply.kind # "place_order_prompt"
               ELSE /\ r.st.phase = AWAITING_CONFIRM
                    /\ is_order_confirm(r.st.slot_buffer)
                    /\ r.reply.kind = "place_order_prompt"

\* the order was to be confirmed while the cart was empty
C18_Witness ==
    /\ last.intent = "confirm_order"
    /\ state.items = <<>>
    /\ last.changes = <<>>
    /\ state.phase = IDLE
    /\ last.reply.kind \in {"generated", "empty", "context"}

\* C19: in every state, whatever the phase, a show_cart turn and an exit
\* turn leave the phase, the slot buffer and the cart as they were, and
\* exit replies with the end-of-session sentinel
C19_ShowCartAndExitReadOnly ==
    \A intent \in {"show_cart", "exit"} : \A env \in AllOutcomes :
        LET r == execute(IntentResult(intent, AnyRaw, FALSE), state, env)
        IN  /\ ~r.raised
            /\ r.st.phase = state.phase
            /\ r.st.slot_buffer = state.slot_buffer
            /\ r.st.items = state.items
            /\ intent = "exit" => r.reply.kind = "__EXIT__"

\* the session was left while an item was in progress
C19_Witness ==
    /\ last.intent = "exit"
    /\ last.reply.kind = "__EXIT__"
    /\ state.phase = SLOT_FILLING
    /\ state.slot_buffer.name # None

\* C20: every turn, whatever its intent, increases turn_count by one
C20_TurnCounted ==
    [][turns' = turns + 1 =>
          state'.turn_count = state.turn_count + 1]_vars

\* two turns were counted, the second one changing nothing else
C20_Witness ==
    /\ turns = 2
    /\ state.turn_count = 2
    /\ last.intent = "show_cart"
    /\ last.changes = <<>>

\* C24: clear() resets the ask-count: the first prompt for a missing slot
\* of a new item, asked in a turn that starts in IDLE after the buffer was
\* cleared, is the first variant of the question
C24_FirstPromptDirect ==
    [][(state.phase = IDLE /\ last'.reply.kind = "ask")
          => last'.reply.variant = 0]_vars

\* C26: parse_item never returns a result whose only filled field is a
\* name that is not a known item, the utterances whose quantity the
\* sanity clamp removes included
C26_NoLoneUnknownName ==
    call.fn = "parse_item" =>
        ~(/\ call.result.name # None
          /\ call.result.quantity = NoneF
          /\ call.result.unit = None
          /\ call.result.name \notin KNOWN_ITEMS)

\* the rule cascade as the specification gives it, "fallback" where no
\* rule matches
Cascade(phase, tokens, digit) ==
    IF phase = AWAITING_CONFIRM
    THEN IF tokens \cap AFFIRM_WORDS # {} THEN "user_confirmed"
         ELSE IF tokens \cap DENY_WORDS # {} THEN "user_denied"
         ELSE "confirmation_unclear"
    ELSE IF phase = SLOT_FILLING
    THEN IF tokens \cap EXIT_WORDS # {} THEN "exit"
         ELSE IF tokens \cap DENY_WORDS # {} THEN "user_denied"
         ELSE "slot_response"
    ELSE CASE tokens \cap EXIT_WORDS # {} -> "exit"
           [] tokens \cap SHOW_CART_WORDS # {} -> "show_cart"
           [] tokens \cap CONFIRM_ORDER_WORDS # {} -> "confirm_order"
           [] /\ tokens \cap {"hello", "hi", "hey", "heya", "hiya"} # {}
              /\ Cardinality(tokens) <= 3 -> "greeting"
           [] /\ tokens \cap (ACKNOWLEDGEMENTS \cup IDLE_DEAD_ENDS) # {}
              /\ tokens \cap KNOWN_ITEMS = {}
              /\ ~digit -> "acknowledgement"
           [] tokens \cap REMOVE_WORDS # {} -> "remove_item"
           [] tokens \cap UPDATE_WORDS # {} -> "update_item"
           [] digit -> "add_item"
           [] tokens \cap KNOWN_UNITS # {} -> "add_item"
           [] tokens \cap KNOWN_ITEMS # {} -> "add_item"
           [] OTHER -> "fallback"

\* C25: in each phase and for each token set decide returns the intent of
\* the first rule of the cascade that matches, by a rule and without the
\* model; where none matches, and only then, it goes to the fallback, and
\* that happens in IDLE only
C25_RuleCascade ==
    call.fn = "decide" =>
        LET want == Cascade(state.phase, call.tokens,
                            AnyDigit(call.tokens))
        IN  IF want # "fallback"
            THEN /\ call.d.via = "rule"
                 /\ call.d.res.intent = want
                 /\ ~call.d.res.llm_used
            ELSE /\ call.d.via \in {"denied", "error", "label"}
                 /\ state.phase = IDLE

\* "drop the rice, change it": an acknowledgement word with a known item,
\* a remove word and an update word, decided remove_item
C25_Witness ==
    /\ call.fn = "decide"
    /\ state.phase = IDLE
    /\ call.tokens = {"drop", "rice", "change"}
    /\ call.d.res.intent = "remove_item"

\* C27: save_session never raises, whether the connection fails or the
\* write fails, and when it returns the cache holds the state saved
C27_SaveNeverRaises ==
    call.fn = "save_session" =>
        /\ ~call.raised
        /\ call.mm.cache = state

\* a state with a cart was saved while the write failed: the cache has
\* it, the database has not
C27_Witness ==
    /\ call.fn = "save_session"
    /\ state.items # <<>>
    /\ call.mm.cache = state
    /\ call.mm.db = "db"
    /\ call.doc = NoneF

\* C21: the turn counter of a session never exceeds
\* MAX_TURNS_PER_SESSION, whichever orchestrator drives the session
C21_TurnCap ==
    call.fn = "session" => state.turn_count <= MAX_TURNS_PER_SESSION

\* C22: after a turn classified exit the session is reset: the state a
\* later request on the session id gets has an empty cart, an empty slot
\* buffer and phase IDLE
C22_ExitResets ==
    (call.fn = "session" /\ call.entry = "chat" /\ last.intent = "exit")
        => LET st == get_session(call.mm, call.doc, SessionDb).st
           IN  /\ st.items = <<>>
               /\ EmptyBuffer(st.slot_buffer)
               /\ st.phase = IDLE

\* C23: the turns on one session are serialized: no two requests are at
\* the same time between their get_session and the end of their
\* save_session on the session's ConversationState
C23_TurnsSerialized ==
    call.fn = "chat" =>
        ~(call.req[1].pc # "idle" /\ call.req[2].pc # "idle")

\* the call c has ended with an outcome for which RETRY_RULES has no retry
NotEligible(c) ==
    call.log[c].outcome # "none" /\ ~Rule(call.log[c].outcome).retry

\* the classification of call c is in call_outcomes
StoredFor(c) ==
    \E d \in call.call_outcomes :
        /\ d.call_id = c
        /\ d.outcome = call.log[c].outcome
        /\ d.retry_recommended = Rule(call.log[c].outcome).retry

\* retry_queue has an entry made for call c
RetryFor(c) ==
    \E d \in call.retry_queue :
        /\ d.original_call_id = c
        /\ d.session_id = call.log[c].session_id
        /\ d.retry_attempt >= 1

\* a call.scheduled event was published for call c
ScheduledFor(c) ==
    \E i \in 1..Len(call.stream) :
        /\ call.stream[i].event_type = "call.scheduled"
        /\ call.stream[i].call_id[1] = c

FirstFailed(c) ==
    \A b \in 1..(c - 1) : ~Rule(call.log[b].outcome).retry

\* call c ended by silence timeout, its session has a document, and no
\* earlier call on the session failed
SilentCall(c) ==
    /\ call.fn = "feedback"
    /\ call.log[c].outcome = "silence_timeout"
    /\ call.log[c].session_id \in call.sessions
    /\ FirstFailed(c)

\* a publish raised while the event of call c was handled, or a database
\* call of the retry engine did, or the retry engine found the session at
\* its maximum
Faulted(c) ==
    \/ call.log[c].emitted = "handler_error"
    \/ call.log[c].retry \in {"error", "error_after_insert", "max_retries"}

OpenAndWaiting ==
    /\ call.fn = "breaker"
    /\ call.cb._state = "OPEN"
    /\ call.now - call.cb._last_failure_ts < recovery_timeout

\* C30: while the breaker is OPEN and the recovery timeout has not elapsed
\* since the last failure, a call that starts, by the decorator or by
\* call(), raises CircuitOpenError, the wrapped function is not invoked,
\* and the failure count, like the rest of the breaker, stays as it is.
C30_OpenBlocksCalls ==
    [][(OpenAndWaiting /\ call'.step.op = "begin") =>
          /\ call'.step.result = "CircuitOpenError"
          /\ call'.invoked = call.invoked
          /\ call'.pc = call.pc
          /\ call'.cb._failure_count = call.cb._failure_count
          /\ call'.cb = call.cb]_vars

C30_Witness ==
    /\ OpenAndWaiting
    /\ call.step.op = "begin"
    /\ call.step.result = "CircuitOpenError"
    /\ call.cb._failure_count = failure_threshold
    /\ call.now > call.cb._last_failure_ts
    /\ \E t \in Callers : call.pc[t] # "idle"

\* C31: in HALF_OPEN one trial call at a time is let through: no two
\* callers are in the wrapped function with calls that were both let
\* through while the breaker was HALF_OPEN.
C31_OneTrialAtATime ==
    call.fn = "breaker" =>
        Cardinality({t \in Callers : call.during[t] = "HALF_OPEN"}) <= 1

\* what a user_confirmed turn from state s to state t does apart from the
\* quantity of an accumulated entry: the entry e named as the buffer keeps
\* its unit when accumulating and takes quantity and unit of the buffer
\* when not, or with e = 0 one entry is appended; every other entry stays;
\* the buffer is empty and the phase IDLE
ConfirmedShape(s, t, e) ==
    /\ t.phase = IDLE
    /\ EmptyBuffer(t.slot_buffer)
    /\ IF e = 0
       THEN t.items = Append(s.items,
                             [name |-> s.slot_buffer.name,
                              quantity |-> s.slot_buffer.quantity,
                              unit |-> s.slot_buffer.unit])
       ELSE /\ Len(t.items) = Len(s.items)
            /\ \A i \in 1..Len(s.items) : i # e => t.items[i] = s.items[i]
            /\ t.items[e].name = s.items[e].name
            /\ IF s.slot_buffer.is_accumulate
               THEN t.items[e].unit = s.items[e].unit
               ELSE /\ t.items[e].unit = s.slot_buffer.unit
                    /\ t.items[e].quantity = s.slot_buffer.quantity

\* the entry of s.items named as the buffer of s, 0 if there is none
Named(s) ==
    IF \E i \in 1..Len(s.items) : s.items[i].name = s.slot_buffer.name
    THEN CHOOSE i \in 1..Len(s.items) :
            s.items[i].name = s.slot_buffer.name
    ELSE 0

\* C32 as claimed: a user_confirmed turn on a complete item buffer adds
\* the buffer's quantity to the entry of that name when is_accumulate is
\* set (the new quantity is old + buffer quantity, the unit stays),
\* overwrites quantity and unit when it is not, appends one entry when
\* there is none; the other entries stay, the buffer ends empty and the
\* phase IDLE.
C32_ConfirmedSum ==
    [][(call.fn = "confirm" /\ last'.intent = "user_confirmed") =>
          /\ ConfirmedShape(state, state', Named(state))
          /\ (Named(state) # 0 /\ state.slot_buffer.is_accumulate) =>
                state'.items[Named(state)].quantity =
                    FloatAdd(state.items[Named(state)].quantity,
                             state.slot_buffer.quantity)]_vars

\* C32: as above, with the accumulated quantity being old + buffer
\* quantity rounded to three decimals: a multiple of 0.001 at most 0.0005
\* away from the sum.
C32_ConfirmedRoundedSum ==
    [][(call.fn = "confirm" /\ last'.intent = "user_confirmed") =>
          /\ ConfirmedShape(state, state', Named(state))
          /\ (Named(state) # 0 /\ state.slot_buffer.is_accumulate) =>
                LET sum == state.items[Named(state)].quantity.v
                             + state.slot_buffer.quantity.v
                    new == state'.items[Named(state)].quantity.v
                IN  /\ new % (QScale \div 1000) = 0
                    /\ 2 * (new - sum) <= QScale \div 1000
                    /\ 2 * (sum - new) <= QScale \div 1000]_vars

\* 0.0004 kg rice more on 0.0005 kg rice gave 0.001 kg
C32_Witness ==
    /\ call.fn = "confirm"
    /\ last.intent = "user_confirmed"
    /\ last.reply.kind = "added_more"
    /\ Len(call.before.items) = 2
    /\ call.before.slot_buffer.name = "rice"
    /\ call.before.slot_buffer.quantity = Fin(4)
    /\ call.before.slot_buffer.unit = "litre"
    /\ call.before.items[2].quantity = Fin(5)
    /\ state.items[2] = [name |-> "rice", quantity |-> Fin(10),
                         unit |-> "kg"]
    /\ state.items[1] = call.before.items[1]
    /\ state.phase = IDLE

\* C33: clarification prompts escalate per field: when the turn before
\* asked for the quantity with the first variant and this turn asks for the
\* unit, which no earlier turn can have asked for this item, the first unit
\* variant is used.
C33_FirstUnitAskDirect ==
    [][(/\ last.reply.kind = "ask"
        /\ last.reply.slot = "quantity"
        /\ last.reply.variant = 0
        /\ turns' = turns + 1
        /\ last'.reply.kind = "ask"
        /\ last'.reply.slot = "unit")
          => last'.reply.variant = 0]_vars

\* C34: a remove_item turn whose utterance names an item of the cart
\* removes the entries of that name and no other and leaves phase and
\* buffer as they are: in every state a session is in between turns with
\* rice in the cart, 'remove rice' is a remove_item turn that ends with the
\* cart without rice.
C34_RemoveNamedItem ==
    (/\ state.phase = IDLE
     /\ \E i \in 1..Len(state.items) : state.items[i].name = "rice")
      => LET d == decide(input_memo[<<"remove", "rice">>], state,
                         Llm("error", None))
             r == execute(d.res, d.st, Env("text", "ok", TRUE))
         IN  /\ d.res.intent = "remove_item"
             /\ r.st.items = Without(state.items, "rice")
             /\ r.st.phase = state.phase
             /\ r.st.slot_buffer = state.slot_buffer

\* C35: at the end of every turn, if the phase is IDLE the slot buffer is
\* empty: name, quantity and unit unset, is_accumulate and is_update false
C35_IdleBufferEmpty ==
    (call.fn = "none" /\ state.phase = IDLE) => EmptyBuffer(state.slot_buffer)

\* an update of an item in the cart was confirmed
C35_Witness ==
    /\ call.fn = "none"
    /\ last.intent = "user_confirmed"
    /\ last.reply.kind = "updated"
    /\ state.phase = IDLE
    /\ EmptyBuffer(state.slot_buffer)
    /\ state.items # <<>>

\* C36: at the end of every turn, in AWAITING_CONFIRM the slot buffer is
\* complete or the whole-order sentinel, in SLOT_FILLING it is incomplete
\* and not the sentinel; and no user_confirmed turn takes the 'buffer not
\* complete' branch of _handle_confirmed
C36_PhaseMatchesBuffer ==
    call.fn = "none" =>
        /\ state.phase = AWAITING_CONFIRM =>
              \/ is_complete(state.slot_buffer)
              \/ is_order_confirm(state.slot_buffer)
        /\ state.phase = SLOT_FILLING =>
              /\ ~is_complete(state.slot_buffer)
              /\ ~is_order_confirm(state.slot_buffer)
        /\ last.reply.kind # "start_over"

\* after 'rice' and '5' the session waits for the unit
C36_Witness ==
    /\ call.fn = "none"
    /\ last.intent = "slot_response"
    /\ state.phase = SLOT_FILLING
    /\ state.slot_buffer.name = "rice"
    /\ state.slot_buffer.quantity = Fin(5 * QScale)
    /\ state.slot_buffer.unit = None

\* C37: in every reachable state the quantity of every cart entry is a
\* number above 0 and at most MAX_ITEM_QUANTITY
C37_QuantityInRange ==
    call.fn = "none" =>
        \A i \in 1..Len(state.items) :
            /\ state.items[i].quantity.k = "fin"
            /\ state.items[i].quantity.v > 0
            /\ state.items[i].quantity.v <= MAX_ITEM_QUANTITY * QScale

\* C38: whenever the buffer holds the whole-order sentinel the cart is not
\* empty and the phase is AWAITING_CONFIRM; the turn that follows is the
\* answer (user_confirmed, user_denied or confirmation_unclear), and unless
\* it is user_confirmed, which finalizes the order with the cart as it is,
\* it leaves the cart unchanged
C38_OrderIsTheCart ==
    [][/\ is_order_confirm(state'.slot_buffer) =>
            state'.items # <<>> /\ state'.phase = AWAITING_CONFIRM
       /\ (call.fn = "none" /\ is_order_confirm(state.slot_buffer)
             /\ turns' = turns + 1) =>
            /\ last'.intent \in {"user_confirmed", "user_denied",
                                 "confirmation_unclear"}
            /\ last'.intent # "user_confirmed" =>
                  state'.items = state.items
            /\ last'.intent = "confirmation_unclear" =>
                  state'.slot_buffer = state.slot_buffer
            /\ last'.intent = "user_confirmed" =>
                  /\ last'.reply.kind \in {"order_confirmed",
                                           "order_confirmed_not_persisted"}
                  /\ state'.items = <<>>]_vars

\* the caller answered the order question with neither yes nor no
C38_Witness ==
    /\ call.fn = "none"
    /\ last.intent = "confirmation_unclear"
    /\ is_order_confirm(state.slot_buffer)
    /\ state.items # <<>>
    /\ state.phase = AWAITING_CONFIRM

\* C39: once DELETE /session/{id} has returned, the state served for the
\* session is the fresh state until a turn that started after the reset
\* changes it
C39_ResetHolds ==
    (call.fn = "reset" /\ call.epoch > 0 /\ ~call.touched)
        => state = ConversationState

\* C40: at most MAX_RETRY_ATTEMPTS retry_queue entries are ever made for
\* the session, and their retry_attempt values are 1, 2, 3 in the order
\* they are made: n entries have the values 1..n
C40_AttemptsCountUp ==
    call.fn = "feedback" =>
        /\ Cardinality(call.retry_queue) <= MAX_RETRY_ATTEMPTS
        /\ {d.retry_attempt : d \in call.retry_queue}
              = 1..Cardinality(call.retry_queue)

====
